---- MODULE Spec2Model ----
(***************************************************************************)
(* Bias Lab backend: the /analyze request handler (app/routes/analyze.py)  *)
(* with the scoring / summary / claim services it calls                    *)
(* (app/services/llm.py, app/services/highlight_extractor.py).             *)
(*                                                                         *)
(* Strings are sequences of one-character strings, so that lower(),        *)
(* strip(), slicing, substring tests and the character offsets of regex    *)
(* matches are computed the way the Python code computes them.             *)
(***************************************************************************)
EXTENDS Integers, Sequences, FiniteSets, TLC

(* ------------------------------------------------------------------ *)
(* Program constants                                                   *)
(* ------------------------------------------------------------------ *)
\* timeout= of the three wait_for calls around the capability tasks
TaskTimeout == 25

\* highlights[:20]
HighlightCap == 20

\* claims[:8]
ClaimCap == 8

\* widest span _norm accepts
MaxSpan == 2000

\* fewest words of a summary sentence used as a synthesized highlight
MinSentenceWords == 8

\* most synthesized highlights
MaxSynthesized == 2

\* longest text of a synthesized highlight
SynthTextLen == 240

\* deadline of one source lookup
SourceTimeout == 5

(* ------------------------------------------------------------------ *)
(* Character and string helpers (Python str semantics)                 *)
(* ------------------------------------------------------------------ *)
UpperChars == <<"A","B","C","D","E","F","G","H","I","J","K","L","M","N","O","P","Q","R","S","T","U","V","W","X","Y","Z">>

LowerChars == <<"a","b","c","d","e","f","g","h","i","j","k","l","m","n","o","p","q","r","s","t","u","v","w","x","y","z">>

DigitChars == {"0","1","2","3","4","5","6","7","8","9"}

SetMin(S) == CHOOSE x \in S : \A y \in S : x <= y

SetMax(S) == CHOOSE x \in S : \A y \in S : x >= y

IMin(a, b) == IF a <= b THEN a ELSE b

IMax(a, b) == IF a >= b THEN a ELSE b

\* str.lower() on one character
LowerChar(c) ==
  IF \E i \in 1..26 : UpperChars[i] = c
  THEN LowerChars[CHOOSE i \in 1..26 : UpperChars[i] = c]
  ELSE c

\* str.lower()
LowerStr(s) == [i \in 1..Len(s) |-> LowerChar(s[i])]

\* regex \w
IsWordChar(c) ==
  \/ \E i \in 1..26 : UpperChars[i] = c \/ LowerChars[i] = c
  \/ c \in DigitChars
  \/ c = "_"

\* regex \s / str.isspace()
IsSpace(c) == c \in {" ", "\n", "\t"}

\* str.strip()
Strip(s) ==
  LET idx == {i \in 1..Len(s) : ~IsSpace(s[i])}
  IN IF idx = {} THEN <<>> ELSE SubSeq(s, SetMin(idx), SetMax(idx))

\* s[:n]
Prefix(s, n) == SubSeq(s, 1, IMin(n, Len(s)))

\* s[a:b] with 0-based offsets a <= b <= len(s)
Slice(s, a, b) == SubSeq(s, a + 1, b)

\* sub == s[p:p+len(sub)]   (p is a 0-based offset)
OccursAt(sub, s, p) ==
  /\ p + Len(sub) <= Len(s)
  /\ \A k \in 1..Len(sub) : s[p + k] = sub[k]

\* sub in s
Contains(sub, s) == \E p \in 0..(Len(s) - Len(sub)) : OccursAt(sub, s, p)

\* s.find(sub): lowest 0-based offset, -1 when absent
Find(sub, s) ==
  LET ps == {p \in 0..(Len(s) - Len(sub)) : OccursAt(sub, s, p)}
  IN IF ps = {} THEN -1 ELSE SetMin(ps)

RECURSIVE CountFrom(_, _, _)
CountFrom(sub, s, p) ==
  LET ps == {q \in p..(Len(s) - Len(sub)) : OccursAt(sub, s, q)}
  IN IF ps = {} THEN 0 ELSE 1 + CountFrom(sub, s, SetMin(ps) + Len(sub))

\* s.count(sub): non-overlapping occurrences of a non-empty sub
Count(sub, s) == CountFrom(sub, s, 0)

RECURSIVE SumSeq(_)
SumSeq(q) == IF q = <<>> THEN 0 ELSE Head(q) + SumSeq(Tail(q))

\* len(s.split()): the number of maximal runs of non-whitespace
WordCount(s) == Cardinality({i \in 1..Len(s) : ~IsSpace(s[i]) /\ (i = 1 \/ IsSpace(s[i - 1]))})

IsSentenceEnd(c) == c \in {".", "!", "?"}

\* first index >= i that is not whitespace (Len(s) + 1 when there is none)
SkipSpaces(s, i) == SetMin({j \in i..(Len(s) + 1) : j > Len(s) \/ ~IsSpace(s[j])})

RECURSIVE SplitSentencesFrom(_, _)
SplitSentencesFrom(s, i) ==
  LET breaks == {j \in IMax(i, 2)..Len(s) : IsSpace(s[j]) /\ IsSentenceEnd(s[j - 1])}
  IN IF breaks = {} THEN <<SubSeq(s, i, Len(s))>>
     ELSE <<SubSeq(s, i, SetMin(breaks) - 1)>> \o SplitSentencesFrom(s, SkipSpaces(s, SetMin(breaks)))

\* re.split(r'(?<=[.!?])\s+', s)
SplitSentences(s) == SplitSentencesFrom(s, 1)

RECURSIVE JoinSpace(_)
JoinSpace(parts) ==
  IF parts = <<>> THEN <<>>
  ELSE IF Len(parts) = 1 THEN parts[1]
  ELSE parts[1] \o <<" ">> \o JoinSpace(Tail(parts))

(* ------------------------------------------------------------------ *)
(* Pattern highlight extractor (services/highlight_extractor.py)       *)
(* ------------------------------------------------------------------ *)
\* \b at the 0-based gap p of s (between s[p-1] and s[p] in Python terms)
WordBoundary(s, p) ==
  LET before == p > 0 /\ IsWordChar(s[p])
      after  == p < Len(s) /\ IsWordChar(s[p + 1])
  IN before # after

\* (dimension, regex, why): each regex is \b(alt1|alt2|...)\b under re.I; alts lists
\* the literal alternatives in the order the regex engine tries them.
BIAS_PATTERNS == <<
  [dimension |-> "framing_choices", why |-> "critics-say", alts |-> <<
      <<"c","r","i","t","i","c","s"," ","s","a","y">>,
      <<"c","r","i","t","i","c","s"," ","a","r","g","u","e">>,
      <<"c","r","i","t","i","c","s"," ","c","l","a","i","m">>>>],
  [dimension |-> "framing_choices", why |-> "hedging", alts |-> <<
      <<"a","l","l","e","g","e","d","l","y">>,
      <<"r","e","p","o","r","t","e","d","l","y">>,
      <<"i","s"," ","s","a","i","d"," ","t","o">>>>],
  [dimension |-> "framing_choices", why |-> "labeling", alts |-> <<
      <<"d","u","b","b","e","d">>,
      <<"b","r","a","n","d","e","d">>,
      <<"l","a","b","e","l","e","d">>>>],
  [dimension |-> "emotional_tone", why |-> "loaded", alts |-> <<
      <<"s","h","o","c","k","i","n","g">>,
      <<"o","u","t","r","a","g","e">>,
      <<"f","u","r","i","o","u","s">>,
      <<"s","l","a","m","m","e","d">>,
      <<"d","i","s","g","r","a","c","e">>,
      <<"s","c","a","n","d","a","l">>>>],
  [dimension |-> "emotional_tone", why |-> "catastrophizing", alts |-> <<
      <<"s","p","i","r","a","l","l","i","n","g"," ","o","u","t"," ","o","f"," ","c","o","n","t","r","o","l">>,
      <<"s","p","i","r","a","l"," ","o","u","t"," ","o","f"," ","c","o","n","t","r","o","l">>,
      <<"i","n"," ","c","h","a","o","s">>,
      <<"i","n"," ","t","u","r","m","o","i","l">>>>],
  [dimension |-> "source_transparency", why |-> "anonymous", alts |-> <<
      <<"a","n","o","n","y","m","o","u","s"," ","s","o","u","r","c","e","s">>,
      <<"a","n","o","n","y","m","o","u","s"," ","s","o","u","r","c","e">>>>],
  [dimension |-> "source_transparency", why |-> "vague-sources", alts |-> <<
      <<"a","c","c","o","r","d","i","n","g"," ","t","o"," ","s","o","u","r","c","e","s">>>>],
  [dimension |-> "source_transparency", why |-> "non-specific", alts |-> <<
      <<"p","e","o","p","l","e"," ","f","a","m","i","l","i","a","r"," ","w","i","t","h"," ","t","h","e"," ","m","a","t","t","e","r">>>>],
  [dimension |-> "ideological_stance", why |-> "ideological-label", alts |-> <<
      <<"l","e","f","t","w","i","n","g">>,
      <<"r","i","g","h","t","w","i","n","g">>,
      <<"f","a","r","-","r","i","g","h","t">>,
      <<"f","a","r"," ","r","i","g","h","t">>,
      <<"f","a","r","r","i","g","h","t">>,
      <<"f","a","r","-","l","e","f","t">>,
      <<"f","a","r"," ","l","e","f","t">>,
      <<"f","a","r","l","e","f","t">>>>]
>>

\* length of the match of pattern pat at offset p of text (0 when none):
\* the first alternative that matches case-insensitively between two \b
MatchLenAt(text, low, pat, p) ==
  LET ok == {k \in 1..Len(pat.alts) :
               /\ OccursAt(pat.alts[k], low, p)
               /\ WordBoundary(text, p + Len(pat.alts[k]))}
  IN IF WordBoundary(text, p) /\ ok # {} THEN Len(pat.alts[SetMin(ok)]) ELSE 0

RECURSIVE FindIter(_, _, _, _)
\* re.finditer(rx, text, flags=re.I): leftmost non-overlapping matches
FindIter(text, low, pat, p) ==
  LET hits == {q \in p..(Len(text) - 1) : MatchLenAt(text, low, pat, q) > 0}
  IN IF hits = {} THEN <<>>
     ELSE LET q == SetMin(hits)
              n == MatchLenAt(text, low, pat, q)
          IN <<[dimension |-> pat.dimension,
                data |-> [text |-> Slice(text, q, q + n), start |-> q, end |-> q + n,
                          reason |-> pat.why, confidence |-> 80]]>>
             \o FindIter(text, low, pat, q + n)

RECURSIVE ExtractFrom(_, _)
ExtractFrom(text, i) ==
  IF i > Len(BIAS_PATTERNS) THEN <<>>
  ELSE FindIter(text, LowerStr(text), BIAS_PATTERNS[i], 0) \o ExtractFrom(text, i + 1)

\* extract_highlights(text)
extract_highlights(text) == IF text = <<>> THEN <<>> ELSE ExtractFrom(text, 1)

(* ------------------------------------------------------------------ *)
(* Heuristic fallbacks (services/llm.py)                               *)
(* ------------------------------------------------------------------ *)
BIAS_DIMENSIONS ==
  <<"ideological_stance", "factual_grounding", "framing_choices", "emotional_tone", "source_transparency">>

AllDimensions == {BIAS_DIMENSIONS[i] : i \in 1..Len(BIAS_DIMENSIONS)}

EmotionalWords == <<<<"o","u","t","r","a","g","e">>, <<"s","h","o","c","k","i","n","g">>, <<"f","u","r","i","o","u","s">>, <<"d","i","s","a","s","t","e","r">>>>

VaguePhrases == <<<<"c","r","i","t","i","c","s"," ","s","a","y">>, <<"s","o","m","e"," ","s","a","y">>, <<"s","o","u","r","c","e","s"," ","s","a","y">>>>

RECURSIVE RuleHighlights(_, _, _)
RuleHighlights(text, low, k) ==
  IF k > Len(VaguePhrases) THEN <<>>
  ELSE LET i == Find(VaguePhrases[k], low)
           n == Len(VaguePhrases[k])
       IN (IF i # -1
           THEN <<[shape |-> "flat", dimension |-> "framing_choices",
                   text |-> Slice(text, i, i + n), start |-> i, end |-> i + n,
                   reason |-> "vague attribution", confidence |-> 60]>>
           ELSE <<>>)
          \o RuleHighlights(text, low, k + 1)

\* _rule_based(text): scores and highlights without any remote call
_rule_based(text) ==
  LET low       == LowerStr(text)
      emotional == SumSeq([k \in 1..Len(EmotionalWords) |-> Count(EmotionalWords[k], low)])
      vague     == SumSeq([k \in 1..Len(VaguePhrases) |-> Count(VaguePhrases[k], low)])
  IN [scores |-> [ideological_stance  |-> 50,
                  factual_grounding   |-> IMax(20, 80 - vague * 10),
                  framing_choices     |-> IMin(90, 40 + vague * 15),
                  emotional_tone      |-> IMin(95, 30 + emotional * 20),
                  source_transparency |-> IMax(20, 70 - vague * 10)],
      highlights |-> Prefix(RuleHighlights(text, low, 1), 3)]

\* llm_summary's local fallback: the first 12 sentences, at most 2500 characters
SummaryFallback(text) == Prefix(JoinSpace(Prefix(SplitSentences(Strip(text)), 12)), 2500)

\* extract_claims' local fallback: up to 4 sentences longer than 60 characters
ClaimsFallback(text) ==
  LET pick == Prefix(SelectSeq(SplitSentences(Strip(text)), LAMBDA s : Len(s) > 60), 4)
  IN [k \in 1..Len(pick) |-> [text |-> pick[k], rationale |-> "salient sentence", confidence |-> 40]]


(* ------------------------------------------------------------------ *)
(* HTML stripping of a fetched page (routes/analyze.py, _strip_html)   *)
(* ------------------------------------------------------------------ *)
RECURSIVE DropBlocks(_, _, _, _)
\* re.sub(r"<tag.*?</tag>", " ", html, flags=re.S | re.I), from 0-based offset p on
DropBlocks(s, open, close, p) ==
  LET low    == LowerStr(s)
      EndsOf(q) == {e \in (q + Len(open))..(Len(s) - Len(close)) : OccursAt(close, low, e)}
      starts == {q \in p..(Len(s) - 1) : OccursAt(open, low, q) /\ EndsOf(q) # {}}
  IN IF starts = {} THEN SubSeq(s, p + 1, Len(s))
     ELSE LET q == SetMin(starts)
          IN SubSeq(s, p + 1, q) \o <<" ">>
             \o DropBlocks(s, open, close, SetMin(EndsOf(q)) + Len(close))

RECURSIVE DropTags(_, _)
\* re.sub(r"<[^>]+>", " ", text), from 0-based offset p on
DropTags(s, p) ==
  LET CloseOf(q) == {e \in (q + 1)..(Len(s) - 1) : s[e + 1] = ">"}
      starts == {q \in p..(Len(s) - 1) :
                   s[q + 1] = "<" /\ CloseOf(q) # {} /\ SetMin(CloseOf(q)) > q + 1}
  IN IF starts = {} THEN SubSeq(s, p + 1, Len(s))
     ELSE LET q == SetMin(starts)
          IN SubSeq(s, p + 1, q) \o <<" ">> \o DropTags(s, SetMin(CloseOf(q)) + 1)

\* re.sub(r"\s+", " ", text)
CollapseSpaces(s) ==
  SelectSeq([i \in 1..Len(s) |->
               IF ~IsSpace(s[i]) THEN s[i]
               ELSE IF i > 1 /\ IsSpace(s[i - 1]) THEN "<dropped>" ELSE " "],
            LAMBDA c : c # "<dropped>")

ScriptOpen == <<"<","s","c","r","i","p","t">>

ScriptClose == <<"<","/","s","c","r","i","p","t",">">>

StyleOpen == <<"<","s","t","y","l","e">>

StyleClose == <<"<","/","s","t","y","l","e",">">>

_strip_html(html) ==
  LET a == DropBlocks(html, ScriptOpen, ScriptClose, 0)
      b == DropBlocks(a, StyleOpen, StyleClose, 0)
      c == DropTags(b, 0)
  IN Strip(CollapseSpaces(c))

(* ------------------------------------------------------------------ *)
(* Request inputs                                                      *)
(* ------------------------------------------------------------------ *)
\* "Critics say the policy is shocking."
TextCritics == <<"C","r","i","t","i","c","s"," ","s","a","y"," ","t","h","e"," ","p","o","l","i","c","y"," ","i","s"," ","s","h","o","c","k","i","n","g",".">>

\* "Plain words here."
TextPlain == <<"P","l","a","i","n"," ","w","o","r","d","s"," ","h","e","r","e",".">>

\* "The memo told all of the staff to return only JSON in every single reply. Plain words."
TextLeak == <<"T","h","e"," ","m","e","m","o"," ","t","o","l","d"," ","a","l","l"," ","o","f"," ","t","h","e"," ","s","t","a","f","f"," ","t","o"," ","r","e","t","u","r","n"," ","o","n","l","y"," ","J","S","O","N"," ","i","n"," ","e","v","e","r","y"," ","s","i","n","g","l","e"," ","r","e","p","l","y","."," ","P","l","a","i","n"," ","w","o","r","d","s",".">>

\* "Sources say critics argue it is SHOCKING, shocking and shocking."
TextMixed == <<"S","o","u","r","c","e","s"," ","s","a","y"," ","c","r","i","t","i","c","s"," ","a","r","g","u","e"," ","i","t"," ","i","s"," ","S","H","O","C","K","I","N","G",","," ","s","h","o","c","k","i","n","g"," ","a","n","d"," ","s","h","o","c","k","i","n","g",".">>

\* "Critics say it. Some say it. Sources say it. critics say some say sources say critics say outrage, outrage, shocking, furious disaster!"
TextLoud == <<"C","r","i","t","i","c","s"," ","s","a","y"," ","i","t","."," ","S","o","m","e"," ","s","a","y"," ","i","t","."," ","S","o","u","r","c","e","s"," ","s","a","y"," ","i","t","."," ","c","r","i","t","i","c","s"," ","s","a","y"," ","s","o","m","e"," ","s","a","y"," ","s","o","u","r","c","e","s"," ","s","a","y"," ","c","r","i","t","i","c","s"," ","s","a","y"," ","o","u","t","r","a","g","e",","," ","o","u","t","r","a","g","e",","," ","s","h","o","c","k","i","n","g",","," ","f","u","r","i","o","u","s"," ","d","i","s","a","s","t","e","r","!">>

\* "  "
TextBlank == <<" "," ">>

\* "<p>Critics say  the policy is <b>shocking</b>.</p><SCRIPT>x<y</script>"
PageCritics == <<"<","p",">","C","r","i","t","i","c","s"," ","s","a","y"," "," ","t","h","e"," ","p","o","l","i","c","y"," ","i","s"," ","<","b",">","s","h","o","c","k","i","n","g","<","/","b",">",".","<","/","p",">","<","S","C","R","I","P","T",">","x","<","y","<","/","s","c","r","i","p","t",">">>

\* "<style>p{}</style> <br/>"
PageEmpty == <<"<","s","t","y","l","e",">","p","{","}","<","/","s","t","y","l","e",">"," ","<","b","r","/",">">>

(* ------------------------------------------------------------------ *)
(* Remote backend responses (what a scoring / summary / claim oracle   *)
(* may answer)                                                         *)
(* ------------------------------------------------------------------ *)
\* longest arbitrary part of a backend highlight list
MaxHL == 2

\* number of distinct filler highlights put in front of a long backend list
PadLen == 19

\* a dict key that is absent
Missing == "<missing>"

RawH(shape, dim, text, start, end, conf) ==
  [shape |-> shape, dimension |-> dim, text |-> text, start |-> start, end |-> end,
   reason |-> "model", confidence |-> conf]

\* same (dimension, text) as the pattern extractor finds in TextCritics
hCritics == RawH("flat", "framing_choices", <<"C","r","i","t","i","c","s"," ","s","a","y">>, 0, 11, 72)

\* text with surrounding whitespace, fields nested under "data"
hShock == RawH("nested", "emotional_tone", <<" ","s","h","o","c","k","i","n","g"," ">>, 26, 34, 0)

\* no dimension key, end < start
hBackwards == RawH("flat", Missing, <<"o","d","d"," ","s","p","a","n">>, 9, 4, 50)

\* span of exactly 2000 characters
hEdge == RawH("flat", "framing_choices", <<"e","d","g","e">>, 3, 2003, 90)

\* span of 2001 characters
hWide == RawH("flat", "source_transparency", <<"w","i","d","e">>, 3, 2004, 90)

\* whitespace-only text
hEmpty == RawH("flat", "framing_choices", <<" "," ">>, 0, 2, 70)

\* prompt leakage
hLeak == RawH("flat", "framing_choices", <<"R","e","t","u","r","n"," ","O","N","L","Y"," ","J","S","O","N">>, 0, 16, 70)

\* an entry that is not a mapping (e.g. a bare string)
hJunk == RawH("junk", Missing, <<>>, 0, 0, 0)

RawEntries == {hCritics, hShock, hBackwards, hEdge, hWide, hEmpty, hLeak, hJunk}

PadTails == {<<>>, <<hCritics>>, <<hEdge, hCritics>>}

\* lists that repeat a (dimension, text) pair, or collide with the pattern extractor twice
RepeatLists == {<<hShock, hCritics, hShock>>}

DigitSeq == <<"0","1","2","3","4","5","6","7","8","9">>

Digit(n) == DigitSeq[n + 1]

Filler(k) == RawH("flat", "ideological_stance", <<"f", Digit(k \div 10), Digit(k % 10)>>, k, k + 3, 55)

Padding == [k \in 1..PadLen |-> Filler(k)]

RECURSIVE SeqsUpTo(_, _)
SeqsUpTo(S, n) ==
  IF n = 0 THEN {<<>>}
  ELSE LET shorter == SeqsUpTo(S, n - 1)
       IN shorter \cup {Append(q, x) : q \in shorter, x \in S}

HighlightLists == SeqsUpTo(RawEntries, MaxHL) \cup RepeatLists \cup {Padding \o t : t \in PadTails}

\* a scoring oracle's answer: an exception (API error, unparsable JSON) or parsed JSON
\* whose "scores" maps some dimensions to a value that is or is not a number
Num(v) == [num |-> TRUE, v |-> v]

GoodScores ==
  [d \in {BIAS_DIMENSIONS[i] : i \in 1..5} |->
     CASE d = "ideological_stance"  -> Num(30)
       [] d = "factual_grounding"   -> Num(80)
       [] d = "framing_choices"     -> Num(60)
       [] d = "emotional_tone"      -> Num(70)
       [] d = "source_transparency" -> Num(50)]

MissingFactual == [d \in (DOMAIN GoodScores) \ {"factual_grounding"} |-> GoodScores[d]]

NonNumeric == [GoodScores EXCEPT !["emotional_tone"] = [num |-> FALSE, v |-> 0]]

ScoreJson(scores, hasList, hl) == [kind |-> "json", scores |-> scores, hasList |-> hasList, highlights |-> hl]

ScoreRaise == [kind |-> "raise", scores |-> GoodScores, hasList |-> FALSE, highlights |-> <<>>]

BadScoreResponses ==
  {ScoreRaise, ScoreJson(MissingFactual, TRUE, <<hCritics>>), ScoreJson(NonNumeric, TRUE, <<hCritics>>)}

\* the highlight lists the scoring oracle answers with in the request handler
BackendLists == {<<>>, <<hCritics, hShock, hCritics>>, <<hCritics, hJunk>>}

GoodScoreResponses ==
  {ScoreJson(GoodScores, TRUE, hl) : hl \in BackendLists} \cup {ScoreJson(GoodScores, FALSE, <<>>)}

ScoreResponses == BadScoreResponses \cup GoodScoreResponses

\* " We met on a hot day to go over the new plan. Short one. It is now up to us to do the job well. "
SumTwo == <<" ","W","e"," ","m","e","t"," ","o","n"," ","a"," ","h","o","t"," ","d","a","y"," ","t","o"," ","g","o"," ","o","v","e","r"," ","t","h","e"," ","n","e","w"," ","p","l","a","n","."," ","S","h","o","r","t"," ","o","n","e","."," ","I","t"," ","i","s"," ","n","o","w"," ","u","p"," ","t","o"," ","u","s"," ","t","o"," ","d","o"," ","t","h","e"," ","j","o","b"," ","w","e","l","l","."," ">>

\* "Please return only JSON when you answer this particular question today."
SumLeak == <<"P","l","e","a","s","e"," ","r","e","t","u","r","n"," ","o","n","l","y"," ","J","S","O","N"," ","w","h","e","n"," ","y","o","u"," ","a","n","s","w","e","r"," ","t","h","i","s"," ","p","a","r","t","i","c","u","l","a","r"," ","q","u","e","s","t","i","o","n"," ","t","o","d","a","y",".">>

\* ten times "the plan was read out and ", then "then it was done. We met on a hot day
\* to go over the new plan. It is now up to us to do the job well.": a first sentence
\* of 267 characters and three sentences of at least 8 words
SumLong ==
  LET w == <<"t","h","e"," ","p","l","a","n"," ","w","a","s"," ","r","e","a","d"," ","o","u","t"," ","a","n","d"," ">>
  IN w \o w \o w \o w \o w \o w \o w \o w \o w \o w \o
     <<"t","h","e","n"," ","i","t"," ","w","a","s"," ","d","o","n","e","."," ","W","e"," ","m","e","t"," ","o","n"," ","a"," ","h","o","t"," ","d","a","y"," ","t","o"," ","g","o"," ","o","v","e","r"," ","t","h","e"," ","n","e","w"," ","p","l","a","n","."," ","I","t"," ","i","s"," ","n","o","w"," ","u","p"," ","t","o"," ","u","s"," ","t","o"," ","d","o"," ","t","h","e"," ","j","o","b"," ","w","e","l","l",".">>

SummaryResponses == {[kind |-> "raise", text |-> <<>>], [kind |-> "text", text |-> SumTwo]}

RawClaim(text) == [text |-> text, rationale |-> "r", confidence |-> 70]

\* "The bill passed."
ClaimA == <<"T","h","e"," ","b","i","l","l"," ","p","a","s","s","e","d",".">>

\* " Taxes rose. "
ClaimB == <<" ","T","a","x","e","s"," ","r","o","s","e","."," ">>

\* ten claims of a remote answer: two without text (left out by extract_claims), then
\* among the eight kept four whose text is blank
LongClaims ==
  LET blank == RawClaim(<<" ">>)
      none  == RawClaim(<<>>)
      c(k)  == RawClaim(<<"c", Digit(k), ".">>)
  IN <<c(1), blank, none, c(2), blank, blank, none, c(3), blank, c(4), c(5), c(6)>>

ClaimLists == {<<RawClaim(<<" ">>), RawClaim(ClaimB), RawClaim(<<>>), RawClaim(ClaimA)>>}

ClaimResponses == {[kind |-> "raise", claims |-> <<>>]} \cup {[kind |-> "json", claims |-> c] : c \in ClaimLists}


(* ------------------------------------------------------------------ *)
(* Highlight normalisation and merge (routes/analyze.py, steps 3-3c)   *)
(* ------------------------------------------------------------------ *)
Marker == <<"r","e","t","u","r","n"," ","o","n","l","y"," ","j","s","o","n">>

\* a span check that zeroes only a reversed span
NormSpan_ReversedOnly(start, end) ==
  IF end < start THEN <<0, 0>> ELSE <<start, end>>

\* the span check of _norm
NormSpan(start, end) ==
  IF end < start \/ end - start > MaxSpan THEN <<0, 0>> ELSE <<start, end>>

\* _norm(h) for an entry that is a mapping (flat, or with its fields under "data")
_norm(h) ==
  LET span == NormSpan(h.start, h.end)
  IN [dimension  |-> IF h.dimension = Missing THEN "framing_choices" ELSE h.dimension,
      text       |-> Strip(h.text),
      start      |-> span[1],
      end        |-> span[2],
      reason     |-> h.reason,
      confidence |-> IF h.confidence = 0 THEN 60 ELSE h.confidence]

\* h.get(...) on an entry that is not a mapping raises AttributeError
NormRaises(h) == h.shape = "junk"

\* the filter of the loop over raw_highlights
KeepNormalized(n) == n.text # <<>> /\ ~Contains(Marker, LowerStr(n.text))

\* step 3: normalized scoring-backend highlights that survive the filter
BackendHighlights(raw) ==
  SelectSeq([i \in 1..Len(raw) |-> _norm(raw[i])], KeepNormalized)

PairOf(h) == <<h.dimension, h.text>>

\* a merge that consults the extractor only when the scorer gave no highlight
MergeLocal_OnlyWhenEmpty(acc, seen, ex, i) ==
  IF acc # <<>> /\ i = 1 THEN acc
  ELSE [k \in 1..Len(ex) |-> [dimension |-> ex[k].dimension, text |-> ex[k].data.text,
                              start |-> ex[k].data.start, end |-> ex[k].data.end,
                              reason |-> ex[k].data.reason,
                              confidence |-> ex[k].data.confidence]]

RECURSIVE MergeLocal(_, _, _, _)
\* step 3b: append the extractor's entries whose (dimension, text) was not seen
MergeLocal(acc, seen, ex, i) ==
  IF i > Len(ex) THEN acc
  ELSE LET dim == ex[i].dimension
           dat == ex[i].data
       IN IF dat.text = <<>> \/ <<dim, dat.text>> \in seen
          THEN MergeLocal(acc, seen, ex, i + 1)
          ELSE MergeLocal(Append(acc, [dimension |-> dim, text |-> dat.text,
                                       start |-> dat.start, end |-> dat.end,
                                       reason |-> dat.reason, confidence |-> dat.confidence]),
                          seen \cup {<<dim, dat.text>>}, ex, i + 1)

\* a fallback that takes the first 2 summary sentences whatever their length
Synthesized_AnySentence(summary) ==
  LET pick == Prefix(SplitSentences(Strip(summary)), MaxSynthesized)
  IN [i \in 1..Len(pick) |->
        [dimension  |-> IF i = 1 THEN "framing_choices" ELSE "emotional_tone",
         text       |-> Prefix(pick[i], SynthTextLen),
         start      |-> 0,
         end        |-> 0,
         reason     |-> "Representative sentence extracted as fallback.",
         confidence |-> 60]]

\* step 3c: up to 2 summary sentences of at least 8 words
Synthesized(summary) ==
  LET sents == SelectSeq(SplitSentences(Strip(summary)), LAMBDA s : WordCount(s) >= MinSentenceWords)
      pick  == Prefix(sents, MaxSynthesized)
  IN [i \in 1..Len(pick) |->
        [dimension  |-> IF i = 1 THEN "framing_choices" ELSE "emotional_tone",
         text       |-> Prefix(pick[i], SynthTextLen),
         start      |-> 0,
         end        |-> 0,
         reason     |-> "Representative sentence extracted as fallback.",
         confidence |-> 60]]

\* a merge that puts the extractor's entries ahead of the scoring backend's
MergeHighlights_ExtractorFirst(raw, text, summary) ==
  LET a == BackendHighlights(raw)
      l == MergeLocal(<<>>, {}, extract_highlights(text), 1)
      b == l \o SelectSeq(a, LAMBDA h : \A i \in 1..Len(l) : PairOf(l[i]) # PairOf(h))
      c == IF b = <<>> /\ summary # <<>> THEN Synthesized(summary) ELSE b
  IN Prefix(c, HighlightCap)

\* steps 3, 3b, 3c and the cap, for a raw list without unusable entries
MergeHighlights(raw, text, summary) ==
  LET a == BackendHighlights(raw)
      b == MergeLocal(a, {PairOf(a[i]) : i \in 1..Len(a)}, extract_highlights(text), 1)
      c == IF b = <<>> /\ summary # <<>> THEN Synthesized(summary) ELSE b
  IN Prefix(c, HighlightCap)

(* ------------------------------------------------------------------ *)
(* Overall bias index (routes/analyze.py)                              *)
(* ------------------------------------------------------------------ *)
\* band thresholds that put a boundary value into the lower band
_bias_band_Inclusive(v) ==
  IF v <= 30 THEN "low"
  ELSE IF v <= 50 THEN "medium"
  ELSE IF v <= 70 THEN "high"
  ELSE "extremely_high"

_bias_band(v) ==
  IF v < 30 THEN "low"
  ELSE IF v < 50 THEN "medium"
  ELSE IF v < 70 THEN "high"
  ELSE "extremely_high"

\* round(val) for the float sum val whose exact value is n/100. Off a tie the float
\* error of the sum (below 1e-12) cannot change the nearest integer; on a tie it
\* decides which neighbour round() yields (scores frame 69, fact 56, src 68, emo 58,
\* ideo 1 make 43.5 and yield 43; 1, 49, 18, 85, 69 make 52.5 and yield 53), so both
\* neighbours are outcomes
RoundOutcomes(n) ==
  LET q == n \div 100
      r == n % 100
  IN IF r < 50 THEN {q}
     ELSE IF r > 50 THEN {q + 1}
     ELSE {q, q + 1}

\* scores.get(d, 0)
ScoreOf(scores, d) == IF d \in DOMAIN scores THEN scores[d] ELSE 0

\* an index without the early return for an empty score set
_bias_index_from_scores_NoEmptyCase(scores) ==
  LET val == 25 * ScoreOf(scores, "framing_choices")
             + 25 * (100 - ScoreOf(scores, "factual_grounding"))
             + 20 * (100 - ScoreOf(scores, "source_transparency"))
             + 15 * ScoreOf(scores, "emotional_tone")
             + 15 * ScoreOf(scores, "ideological_stance")
  IN {IMax(0, IMin(100, v)) : v \in RoundOutcomes(val)}

\* the values _bias_index_from_scores(scores) can return (one, or two on a tie)
_bias_index_from_scores(scores) ==
  IF DOMAIN scores = {} THEN {0}
  ELSE LET emo   == ScoreOf(scores, "emotional_tone")
           frame == ScoreOf(scores, "framing_choices")
           fact  == 100 - ScoreOf(scores, "factual_grounding")
           src   == 100 - ScoreOf(scores, "source_transparency")
           ideo  == ScoreOf(scores, "ideological_stance")
           val   == 25 * frame + 25 * fact + 20 * src + 15 * emo + 15 * ideo
       IN {IMax(0, IMin(100, v)) : v \in RoundOutcomes(val)}

(* ------------------------------------------------------------------ *)
(* The /analyze handler, its tasks and the threads they run            *)
(* ------------------------------------------------------------------ *)
VARIABLES
  cfg,              \* which API keys the process was started with
  pc,               \* position of the analyze handler
  payload,          \* the validated request body: [url, text]
  full,             \* the ?full= query flag
  article_text,     \* the text being analysed
  clock,            \* event-loop time
  task,             \* state of each wait_for(...) task given to gather
  deadline,         \* expiry time of each task's timer
  thr,              \* position of each worker thread started by to_thread
  ret,              \* value each worker thread handed back to its awaiter
  score_res,        \* locals of analyze
  summary_text,
  claims,
  highlights,
  enriched_claims,
  ci,               \* index of the claim the enrichment loop is at
  invoked,          \* number of invocations of each service function / remote call
  db,               \* rows added to the session and committed
  status,           \* HTTP status of the response (0: none yet)
  body,             \* JSON body of the response
  arts,             \* cluster_narratives: the window of articles read from the database
  ai,               \* cluster_narratives: index of the article the bucketing loop is at
  buckets,          \* cluster_narratives: the buckets built so far
  clients,          \* llm.py globals _openai_client, _anthropic_client (0: None, k: the k-th object made)
  constructed,      \* number of client objects constructed so far, per backend
  raw_results,      \* find_primary_sources: the results the search answered with (raw)
  ranked            \* find_primary_sources: the list it returned (items)

vars == <<cfg, pc, payload, full, article_text, clock, task, deadline, thr, ret, score_res,
          summary_text, claims, highlights, enriched_claims, ci, invoked, db, status, body,
          arts, ai, buckets, clients, constructed, raw_results, ranked>>

\* llm.py lines 8-9: no client object exists when the module is loaded
NoClients == [openai |-> 0, anthropic |-> 0]

TaskNames == {"score", "summary", "claims"}

\* the worker thread of each task, and the two threads of the sequential re-run
Threads == {"score1", "summary1", "claims1", "score2", "summary2"}

ThreadOf(t) == CASE t = "score" -> "score1" [] t = "summary" -> "summary1" [] t = "claims" -> "claims1"

TaskOf(th) == CASE th = "score1" -> "score" [] th = "summary1" -> "summary" [] th = "claims1" -> "claims"

\* the service function a thread runs
FnOf(th) ==
  CASE th \in {"score1", "score2"}     -> "llm_score"
    [] th \in {"summary1", "summary2"} -> "llm_summary"
    [] th = "claims1"                  -> "extract_claims"

CallNames == {"llm_score", "llm_summary", "extract_claims", "find_primary_sources"}

NoScore == [scores |-> <<>>, highlights |-> <<>>]

NoBody == [summary |-> <<>>, scores |-> <<>>, overall |-> [value |-> 0, band |-> "low"], claims |-> <<>>]

Init ==
  /\ raw_results = <<>>
  /\ ranked = <<>>
  /\ clients = NoClients
  /\ constructed = NoClients
  /\ arts = <<>>
  /\ ai = 1
  /\ buckets = <<>>
  /\ cfg \in [openai : BOOLEAN, anthropic : BOOLEAN]
  /\ pc = "idle"
  /\ payload = [url |-> FALSE, text |-> <<>>]
  /\ full = FALSE
  /\ article_text = <<>>
  /\ clock = 0
  /\ task = [t \in TaskNames |-> "none"]
  /\ deadline = [t \in TaskNames |-> 0]
  /\ thr = [th \in Threads |-> "idle"]
  /\ ret = [th \in Threads |-> <<>>]
  /\ score_res = NoScore
  /\ summary_text = <<>>
  /\ claims = <<>>
  /\ highlights = <<>>
  /\ enriched_claims = <<>>
  /\ ci = 1
  /\ invoked = [c \in CallNames |-> 0]
  /\ db = [articles |-> <<>>, highlights |-> <<>>, narratives |-> <<>>]
  /\ status = 0
  /\ body = NoBody

\* AnalyzeIn.empty_to_none: a text that is empty after trimming counts as no text
empty_to_none(v) == IF v # <<>> /\ Strip(v) # <<>> THEN v ELSE <<>>

RequestBodies ==
  {[url |-> FALSE, text |-> t] : t \in {TextCritics, TextLeak, TextLoud, TextBlank, <<>>}}
  \cup {[url |-> TRUE, text |-> TextBlank]}

FetchedPages == {PageCritics, PageEmpty}

\* a request arrives and its body is validated
Receive ==
  /\ pc = "idle"
  /\ \E b \in RequestBodies, f \in BOOLEAN :
       /\ payload' = [b EXCEPT !.text = empty_to_none(b.text)]
       /\ full' = f
  /\ pc' = "start"
  /\ UNCHANGED <<raw_results, ranked, clients, constructed, arts, ai, buckets, cfg, article_text, clock, task, deadline, thr, ret, score_res, summary_text,
                 claims, highlights, enriched_claims, ci, invoked, db, status, body>>

\* neither url nor text: 400 "Provide url or text"
RejectNoInput ==
  /\ pc = "start"
  /\ ~payload.url /\ payload.text = <<>>
  /\ pc' = "rejected"
  /\ status' = 400
  /\ UNCHANGED <<raw_results, ranked, clients, constructed, arts, ai, buckets, cfg, payload, full, article_text, clock, task, deadline, thr, ret, score_res,
                 summary_text, claims, highlights, enriched_claims, ci, invoked, db, body>>

\* the text of the request is the article text
UseText ==
  /\ pc = "start"
  /\ payload.text # <<>>
  /\ article_text' = payload.text
  /\ pc' = "launch"
  /\ UNCHANGED <<raw_results, ranked, clients, constructed, arts, ai, buckets, cfg, payload, full, clock, task, deadline, thr, ret, score_res, summary_text,
                 claims, highlights, enriched_claims, ci, invoked, db, status, body>>

\* no text but a url: fetch it; a failed fetch or an empty page is a 400
FetchUrl ==
  /\ pc = "start"
  /\ payload.text = <<>> /\ payload.url
  /\ \E ok \in BOOLEAN, page \in FetchedPages :
       LET text == _strip_html(page)
       IN IF ok /\ text # <<>>
          THEN /\ article_text' = text
               /\ pc' = "launch"
               /\ status' = status
          ELSE /\ article_text' = article_text
               /\ pc' = "rejected"
               /\ status' = 400
  /\ UNCHANGED <<raw_results, ranked, clients, constructed, arts, ai, buckets, cfg, payload, full, clock, task, deadline, thr, ret, score_res, summary_text,
                 claims, highlights, enriched_claims, ci, invoked, db, body>>

Bump(counts, names) == [c \in CallNames |-> IF c \in names THEN counts[c] + 1 ELSE counts[c]]

\* the first candidate a service function tries: _get_openai() / _get_anthropic()
\* hand out a client only when the key is configured
FirstCandidate(th) ==
  IF cfg.openai THEN "openai"
  ELSE IF FnOf(th) = "llm_score" /\ cfg.anthropic THEN "anthropic"
  ELSE "local"

\* a chain that goes from any failed remote candidate straight to the heuristic
NextCandidate_NoSecondary(th, pos) == "local"

\* the candidate tried after the one at position pos has failed
NextCandidate(th, pos) ==
  IF FnOf(th) = "llm_score" /\ pos = "openai" /\ cfg.anthropic THEN "anthropic" ELSE "local"

\* asyncio.to_thread(fn, article_text): the function starts running in a worker thread
StartThread(th) ==
  /\ thr' = [thr EXCEPT ![th] = FirstCandidate(th)]
  /\ invoked' = Bump(invoked, {FnOf(th)})

\* lines 103-117: the tasks are created and gather starts them
Launch ==
  /\ pc = "launch"
  /\ LET started == IF full THEN TaskNames ELSE {"score", "summary"}
         ths     == {ThreadOf(t) : t \in started}
     IN /\ task' = [t \in TaskNames |-> IF t \in started THEN "pending" ELSE "none"]
        /\ deadline' = [t \in TaskNames |-> IF t \in started THEN clock + TaskTimeout ELSE 0]
        /\ thr' = [th \in Threads |-> IF th \in ths THEN FirstCandidate(th) ELSE thr[th]]
        /\ invoked' = Bump(invoked, {FnOf(th) : th \in ths})
  /\ pc' = "gather"
  /\ UNCHANGED <<raw_results, ranked, clients, constructed, arts, ai, buckets, cfg, payload, full, article_text, clock, ret, score_res, summary_text, claims,
                 highlights, enriched_claims, ci, db, status, body>>

NoRet == [th \in Threads |-> <<>>]

\* the awaiter of thread th is still waiting for it
Awaited(th) ==
  IF th \in {"score2", "summary2"} THEN TRUE ELSE task[TaskOf(th)] = "pending" /\ pc = "gather"

\* the function run by thread th returns v: the value reaches the awaiter, or is
\* dropped when the task around it has already timed out
Return(th, v) ==
  /\ thr' = [thr EXCEPT ![th] = "returned"]
  /\ ret' = IF Awaited(th) THEN [ret EXCEPT ![th] = v] ELSE ret
  /\ task' = IF th \in {"score2", "summary2"} \/ ~Awaited(th) THEN task
             ELSE [task EXCEPT ![TaskOf(th)] = "done"]
  /\ invoked' = invoked

\* the candidate at the thread's position failed: move on to the next one
Advance(th) ==
  /\ thr' = [thr EXCEPT ![th] = NextCandidate(th, thr[th])]
  /\ UNCHANGED <<ret, task, invoked>>

\* _validate_dims: every dimension present and numeric
ValidDims(data) ==
  \A i \in 1..Len(BIAS_DIMENSIONS) :
    /\ BIAS_DIMENSIONS[i] \in DOMAIN data.scores
    /\ data.scores[BIAS_DIMENSIONS[i]].num

\* the dict llm_score returns for a valid answer ("highlights" defaults to [])
Validated(data) ==
  [scores |-> [d \in DOMAIN data.scores |-> data.scores[d].v],
   highlights |-> IF data.hasList THEN data.highlights ELSE <<>>]

ScoreThreads == {"score1", "score2"}

SummaryThreads == {"summary1", "summary2"}

\* llm_score: the remote model at the thread's position answers; an exception or an
\* answer that fails _validate_dims moves on to the next candidate, the last of
\* which is _rule_based
ScoreRespond(th) ==
  /\ th \in ScoreThreads
  /\ thr[th] \in {"openai", "anthropic"}
  /\ \E r \in ScoreResponses :
       IF r.kind = "json" /\ ValidDims(r) THEN Return(th, Validated(r))
       ELSE IF NextCandidate(th, thr[th]) = "local" THEN Return(th, _rule_based(article_text))
       ELSE Advance(th)
  /\ UNCHANGED <<raw_results, ranked, clients, constructed, arts, ai, buckets, cfg, pc, payload, full, article_text, clock, deadline, score_res, summary_text,
                 claims, highlights, enriched_claims, ci, db, status, body>>

\* llm_score with no client configured: return _rule_based(text)
ScoreLocal(th) ==
  /\ th \in ScoreThreads
  /\ thr[th] = "local"
  /\ Return(th, _rule_based(article_text))
  /\ UNCHANGED <<raw_results, ranked, clients, constructed, arts, ai, buckets, cfg, pc, payload, full, article_text, clock, deadline, score_res, summary_text,
                 claims, highlights, enriched_claims, ci, db, status, body>>

\* llm_summary: the remote model answers
SummaryRespond(th) ==
  /\ th \in SummaryThreads
  /\ thr[th] = "openai"
  /\ \E r \in SummaryResponses :
       IF r.kind = "text" THEN Return(th, Strip(r.text))
       ELSE Return(th, SummaryFallback(article_text))
  /\ UNCHANGED <<raw_results, ranked, clients, constructed, arts, ai, buckets, cfg, pc, payload, full, article_text, clock, deadline, score_res, summary_text,
                 claims, highlights, enriched_claims, ci, db, status, body>>

\* llm_summary with no key configured: the local fallback
SummaryLocal(th) ==
  /\ th \in SummaryThreads
  /\ thr[th] = "local"
  /\ Return(th, SummaryFallback(article_text))
  /\ UNCHANGED <<raw_results, ranked, clients, constructed, arts, ai, buckets, cfg, pc, payload, full, article_text, clock, deadline, score_res, summary_text,
                 claims, highlights, enriched_claims, ci, db, status, body>>

\* the list comprehension of extract_claims: claims with a text, trimmed, at most 8
ParsedClaims(raw) ==
  LET kept == SelectSeq(raw, LAMBDA c : c.text # <<>>)
  IN Prefix([i \in 1..Len(kept) |-> [kept[i] EXCEPT !.text = Strip(kept[i].text)]], 8)

\* extract_claims: the remote model answers
ClaimsRespond ==
  /\ thr["claims1"] = "openai"
  /\ \E r \in ClaimResponses :
       IF r.kind = "json" THEN Return("claims1", ParsedClaims(r.claims))
       ELSE Return("claims1", ClaimsFallback(article_text))
  /\ UNCHANGED <<raw_results, ranked, clients, constructed, arts, ai, buckets, cfg, pc, payload, full, article_text, clock, deadline, score_res, summary_text,
                 claims, highlights, enriched_claims, ci, db, status, body>>

\* extract_claims with no key configured: the local fallback
ClaimsLocal ==
  /\ thr["claims1"] = "local"
  /\ Return("claims1", ClaimsFallback(article_text))
  /\ UNCHANGED <<raw_results, ranked, clients, constructed, arts, ai, buckets, cfg, pc, payload, full, article_text, clock, deadline, score_res, summary_text,
                 claims, highlights, enriched_claims, ci, db, status, body>>

\* no timer of a pending task is due
NoDueTimer == \A t \in TaskNames : task[t] = "pending" => clock < deadline[t]

\* time passes until the next timer of a pending task
Tick ==
  /\ \E t \in TaskNames : task[t] = "pending"
  /\ NoDueTimer
  /\ clock' = SetMin({deadline[t] : t \in {u \in TaskNames : task[u] = "pending"}})
  /\ UNCHANGED <<raw_results, ranked, clients, constructed, arts, ai, buckets, cfg, pc, payload, full, article_text, task, deadline, thr, ret, score_res,
                 summary_text, claims, highlights, enriched_claims, ci, invoked, db, status, body>>

\* the timers of wait_for(..., timeout=25) expire (all were armed at the same
\* instant): each await still pending is cancelled, its thread keeps running
Timeout ==
  /\ \E t \in TaskNames : task[t] = "pending"
  /\ ~NoDueTimer
  /\ task' = [t \in TaskNames |-> IF task[t] = "pending" /\ clock >= deadline[t] THEN "timedout" ELSE task[t]]
  /\ UNCHANGED <<raw_results, ranked, clients, constructed, arts, ai, buckets, cfg, pc, payload, full, article_text, clock, deadline, thr, ret, score_res,
                 summary_text, claims, highlights, enriched_claims, ci, invoked, db, status, body>>

\* lines 119-122: every task finished in time
GatherOk ==
  /\ pc = "gather"
  /\ \A t \in TaskNames : task[t] \in {"none", "done"}
  /\ score_res' = ret["score1"]
  /\ summary_text' = ret["summary1"]
  /\ claims' = IF full THEN ret["claims1"] ELSE <<>>
  /\ ret' = NoRet
  /\ pc' = "assemble"
  /\ UNCHANGED <<raw_results, ranked, clients, constructed, arts, ai, buckets, cfg, payload, full, article_text, clock, task, deadline, thr, highlights,
                 enriched_claims, ci, invoked, db, status, body>>

\* lines 123-125: a task timed out, gather raises TimeoutError, llm_score is run again
GatherTimeout ==
  /\ pc = "gather"
  /\ \E t \in TaskNames : task[t] = "timedout"
  /\ StartThread("score2")
  /\ ret' = NoRet
  /\ pc' = "rerun_score"
  /\ UNCHANGED <<raw_results, ranked, clients, constructed, arts, ai, buckets, cfg, payload, full, article_text, clock, task, deadline, score_res,
                 summary_text, claims, highlights, enriched_claims, ci, db, status, body>>

\* a re-run that starts the second llm_summary without awaiting the second llm_score
RerunScoreDone_NoAwait ==
  /\ pc = "rerun_score"
  /\ thr["summary2"] = "idle"
  /\ score_res' = ret["score2"]
  /\ StartThread("summary2")
  /\ ret' = NoRet
  /\ pc' = "rerun_summary"
  /\ UNCHANGED <<raw_results, ranked, clients, constructed, arts, ai, buckets, cfg, payload, full, article_text, clock, task, deadline,
                 summary_text, claims, highlights, enriched_claims, ci, db, status, body>>

\* lines 125-126: the second llm_score returned, llm_summary is run again
RerunScoreDone ==
  /\ pc = "rerun_score"
  /\ thr["score2"] = "returned"
  /\ score_res' = ret["score2"]
  /\ StartThread("summary2")
  /\ ret' = NoRet
  /\ pc' = "rerun_summary"
  /\ UNCHANGED <<raw_results, ranked, clients, constructed, arts, ai, buckets, cfg, payload, full, article_text, clock, task, deadline, summary_text,
                 claims, highlights, enriched_claims, ci, db, status, body>>

\* a re-run that hands the claims of the text on to the report
RerunSummaryDone_KeepsClaims ==
  /\ pc = "rerun_summary"
  /\ thr["summary2"] = "returned"
  /\ summary_text' = ret["summary2"]
  /\ claims' = ClaimsFallback(article_text)
  /\ ret' = NoRet
  /\ pc' = "assemble"
  /\ UNCHANGED <<raw_results, ranked, clients, constructed, arts, ai, buckets, cfg, payload, full, article_text, clock, task, deadline, thr, score_res,
                 highlights, enriched_claims, ci, invoked, db, status, body>>

\* lines 126-127: the second llm_summary returned; claims degrade to []
RerunSummaryDone ==
  /\ pc = "rerun_summary"
  /\ thr["summary2"] = "returned"
  /\ summary_text' = ret["summary2"]
  /\ claims' = <<>>
  /\ ret' = NoRet
  /\ pc' = "assemble"
  /\ UNCHANGED <<raw_results, ranked, clients, constructed, arts, ai, buckets, cfg, payload, full, article_text, clock, task, deadline, thr, score_res,
                 highlights, enriched_claims, ci, invoked, db, status, body>>

(* ------------------------------------------------------------------ *)
(* Primary sources (services/sourcing.py); scores in hundredths        *)
(* ------------------------------------------------------------------ *)
\* s.endswith(suf)
EndsWith(suf, s) == Len(suf) <= Len(s) /\ OccursAt(suf, s, Len(s) - Len(suf))

\* urlparse(u).netloc for "scheme://netloc/path?query#fragment"; empty when u has no "//"
Netloc(u) ==
  LET p == Find(<<":","/","/">>, u)
  IN IF p = -1 THEN <<>>
     ELSE LET rest == SubSeq(u, p + 4, Len(u))
              ends == {i \in 1..Len(rest) : rest[i] \in {"/", "?", "#"}}
          IN IF ends = {} THEN rest ELSE SubSeq(rest, 1, SetMin(ends) - 1)

_bonus(url, title) ==
  LET u    == LowerStr(url)
      t    == LowerStr(title)
      host == Netloc(u)
      BadHosts ==
        <<<<"w","i","k","i","p","e","d","i","a",".","o","r","g">>,
          <<"r","e","d","d","i","t",".","c","o","m">>,
          <<"x",".","c","o","m">>,
          <<"t","w","i","t","t","e","r",".","c","o","m">>,
          <<"f","a","c","e","b","o","o","k",".","c","o","m">>,
          <<"m","e","d","i","u","m",".","c","o","m">>>>
  IN (IF EndsWith(<<".","g","o","v">>, host) \/ EndsWith(<<".","m","i","l">>, host) \/ EndsWith(<<".","e","d","u">>, host)
      THEN 25 ELSE 0)
     + (IF EndsWith(<<".","p","d","f">>, u) \/ Contains(<<"f","i","l","e","t","y","p","e",":","p","d","f">>, u) THEN 15 ELSE 0)
     + (IF Contains(<<"p","r","e","s","s">>, t) /\ Contains(<<"r","e","l","e","a","s","e">>, t) THEN 10 ELSE 0)
     + (IF Contains(<<"o","f","f","i","c","i","a","l">>, t) \/ Contains(<<"s","t","a","t","e","m","e","n","t">>, t) THEN 8 ELSE 0)
     - (IF \E i \in 1..Len(BadHosts) : EndsWith(BadHosts[i], host) THEN 25 ELSE 0)

\* an item of find_primary_sources
Source(title, url, score) == [title |-> title, url |-> url, score |-> score, published |-> "none"]

RECURSIVE UniqueFrom(_, _, _)
UniqueFrom(items, seen, i) ==
  IF i > Len(items) THEN <<>>
  ELSE LET host == Netloc(LowerStr(items[i].url))
       IN IF host = <<>> \/ host \in seen THEN UniqueFrom(items, seen, i + 1)
          ELSE <<items[i]>> \o UniqueFrom(items, seen \cup {host}, i + 1)

_unique_by_domain(items) == UniqueFrom(items, {}, 1)

\* items.sort(key=score, reverse=True): descending, equal scores keep their order
SortByScore(items) ==
  LET n      == Len(items)
      key(i) == (100 - items[i].score) * (n + 1) + i
  IN [k \in 1..n |-> items[CHOOSE i \in 1..n : Cardinality({j \in 1..n : key(j) <= key(i)}) = k]]

\* find_primary_sources(query, k) for the results raw the search answered with
\* (a result without a title is titled by its url)
find_primary_sources(raw, k) ==
  LET items == [i \in 1..Len(raw) |->
                  Source(IF raw[i].title = <<>> THEN raw[i].url ELSE raw[i].title,
                         raw[i].url,
                         IMax(0, IMin(100, raw[i].score + _bonus(raw[i].url, IF raw[i].title = <<>> THEN raw[i].url ELSE raw[i].title))))]
  IN Prefix(_unique_by_domain(SortByScore(items)), IMax(1, k))

\* what the search may answer with: results with title, url and relevance score
RawResults ==
  LET RawResult(title, url, score) == [title |-> title, url |-> url, score |-> score]
      gov     == RawResult(<<"P","r","e","s","s"," ","r","e","l","e","a","s","e">>, <<"h","t","t","p","s",":","/","/","a",".","g","o","v","/","x",".","p","d","f">>, 50)
      govPort == RawResult(<<>>, <<"h","t","t","p","s",":","/","/","A",".","g","o","v",":","4","4","3","/","y">>, 90)
      gov2    == RawResult(<<>>, <<"h","t","t","p","s",":","/","/","a",".","g","o","v","/","z">>, 60)
      wiki    == RawResult(<<>>, <<"h","t","t","p","s",":","/","/","e","n",".","w","i","k","i","p","e","d","i","a",".","o","r","g","/","w","i","k","i","/","Z">>, 95)
      com     == RawResult(<<"O","f","f","i","c","i","a","l"," ","s","t","a","t","e","m","e","n","t">>, <<"h","t","t","p","s",":","/","/","c",".","c","o","m","/","z">>, 40)
      bare    == RawResult(<<>>, <<"a",".","g","o","v","/","w">>, 99)
  IN {<<>>, <<wiki, gov2, gov, com, bare>>, <<govPort, gov2, com>>}

\* the single results a search is tried with: urls on official, aggregator,
\* look-alike and plain hosts, with and without a title, at three relevance scores
ResultGrid ==
  LET urls   == {<<"h","t","t","p","s",":","/","/","a",".","g","o","v","/","x",".","p","d","f">>, <<"h","t","t","p","s",":","/","/","A",".","g","o","v",":","4","4","3","/","y">>, <<"h","t","t","p","s",":","/","/","e","n",".","w","i","k","i","p","e","d","i","a",".","o","r","g","/","w","i","k","i","/","Z">>, <<"h","t","t","p","s",":","/","/","n","e","t","f","l","i","x",".","c","o","m","/","p","r","e","s","s">>, <<"h","t","t","p","s",":","/","/","x",".","c","o","m","/","a">>, <<"h","t","t","p","s",":","/","/","c",".","c","o","m","/","z">>, <<"h","t","t","p","s",":","/","/","c",".","c","o","m","/","s","?","q","=","f","i","l","e","t","y","p","e",":","p","d","f">>, <<"a",".","g","o","v","/","w">>}
      titles == {<<>>, <<"P","r","e","s","s"," ","r","e","l","e","a","s","e">>, <<"O","f","f","i","c","i","a","l"," ","s","t","a","t","e","m","e","n","t">>}
  IN {[title |-> t, url |-> u, score |-> b] : t \in titles, u \in urls, b \in {0, 40, 95}}

\* the answers of a search: one result of the grid, or one of the longer lists
SearchAnswers == {<<r>> : r \in ResultGrid} \cup RawResults

\* a source lookup on its own: the search has answered
SourceInit ==
  /\ raw_results \in SearchAnswers
  /\ ranked = <<>>
  /\ clients = NoClients
  /\ constructed = NoClients
  /\ arts = <<>>
  /\ ai = 1
  /\ buckets = <<>>
  /\ cfg = [openai |-> FALSE, anthropic |-> FALSE]
  /\ pc = "sourcing"
  /\ payload = [url |-> FALSE, text |-> TextPlain]
  /\ article_text = TextPlain
  /\ full = TRUE
  /\ clock = 0
  /\ task = [t \in TaskNames |-> "none"]
  /\ deadline = [t \in TaskNames |-> 0]
  /\ thr = [th \in Threads |-> "idle"]
  /\ ret = NoRet
  /\ score_res = NoScore
  /\ summary_text = <<>>
  /\ claims = <<>>
  /\ highlights = <<>>
  /\ enriched_claims = <<>>
  /\ ci = 1
  /\ invoked = [c \in CallNames |-> 0]
  /\ db = [articles |-> <<>>, highlights |-> <<>>, narratives |-> <<>>]
  /\ status = 0
  /\ body = NoBody

\* lines 73-91: the results are scored, ranked, made unique by domain and trimmed
RankSources ==
  /\ pc = "sourcing"
  /\ ranked' = find_primary_sources(raw_results, 3)
  /\ invoked' = Bump(invoked, {"find_primary_sources"})
  /\ pc' = "sourced"
  /\ UNCHANGED <<raw_results, clients, constructed, arts, ai, buckets, cfg, payload, full, article_text,
                 clock, task, deadline, thr, ret, score_res, summary_text, claims, highlights,
                 enriched_claims, ci, db, status, body>>

\* lines 50-51 and 93-95: no search key, or the search raised: no sources
SearchFails ==
  /\ pc = "sourcing"
  /\ ranked' = <<>>
  /\ invoked' = Bump(invoked, {"find_primary_sources"})
  /\ pc' = "unsourced"
  /\ UNCHANGED <<raw_results, clients, constructed, arts, ai, buckets, cfg, payload, full, article_text,
                 clock, task, deadline, thr, ret, score_res, summary_text, claims, highlights,
                 enriched_claims, ci, db, status, body>>

SourceSpec == SourceInit /\ [][RankSources \/ SearchFails]_vars

\* what find_primary_sources(q, 3) may hand back (nothing when the search is not
\* configured, raises or finds nothing)
FoundSources == {find_primary_sources(raw, 3) : raw \in RawResults}

\* lines 129-190: scores and highlights are taken from the scoring result, the
\* highlights are normalized, merged with the pattern extractor's and capped.
\* An entry _norm cannot read raises out of the handler: the request ends in a 500.
Assemble ==
  /\ pc = "assemble"
  /\ LET raw == score_res.highlights
     IN IF \E i \in 1..Len(raw) : NormRaises(raw[i])
        THEN /\ pc' = "failed"
             /\ status' = 500
             /\ highlights' = highlights
        ELSE /\ pc' = IF full /\ claims # <<>> THEN "enrich" ELSE "persist"
             /\ status' = status
             /\ highlights' = MergeHighlights(raw, article_text, summary_text)
  /\ UNCHANGED <<raw_results, ranked, clients, constructed, arts, ai, buckets, cfg, payload, full, article_text, clock, task, deadline, thr, ret, score_res,
                 summary_text, claims, enriched_claims, ci, invoked, db, body>>

\* how long a source lookup may take: less or more than its deadline
LookupTimes == {1, 9}

\* a loop that leaves out the claims no source was found for
EnrichClaim_DropsUnsourced ==
  /\ pc = "enrich"
  /\ LET todo == Prefix(claims, ClaimCap)
         c    == todo[ci]
         q    == Strip(c.text)
     IN /\ IF q = <<>>
           THEN /\ enriched_claims' = enriched_claims
                /\ invoked' = invoked
                /\ clock' = clock
           ELSE /\ invoked' = Bump(invoked, {"find_primary_sources"})
                /\ \E took \in LookupTimes, found \in FoundSources :
                     LET sources == IF took > SourceTimeout THEN <<>> ELSE found
                     IN /\ clock' = clock + IMin(took, SourceTimeout)
                        /\ enriched_claims' =
                             IF sources = <<>> THEN enriched_claims ELSE Append(enriched_claims,
                                    [text |-> q, rationale |-> c.rationale,
                                     confidence |-> c.confidence, sources |-> Prefix(sources, 2)])
        /\ ci' = ci + 1
        /\ pc' = IF ci >= Len(todo) THEN "persist" ELSE "enrich"
  /\ UNCHANGED <<raw_results, ranked, clients, constructed, arts, ai, buckets, cfg, payload, full, article_text, task, deadline, thr, ret, score_res,
                 summary_text, claims, highlights, db, status, body>>

\* lines 195-211: one iteration of the loop over claims[:8]; the lookup is awaited for
\* at most 5 units, after which the claim is emitted without sources
EnrichClaim ==
  /\ pc = "enrich"
  /\ LET todo == Prefix(claims, ClaimCap)
         c    == todo[ci]
         q    == Strip(c.text)
     IN /\ IF q = <<>>
           THEN /\ enriched_claims' = enriched_claims
                /\ invoked' = invoked
                /\ clock' = clock
           ELSE /\ invoked' = Bump(invoked, {"find_primary_sources"})
                /\ \E took \in LookupTimes, found \in FoundSources :
                     LET sources == IF took > SourceTimeout THEN <<>> ELSE found
                     IN /\ clock' = clock + IMin(took, SourceTimeout)
                        /\ enriched_claims' =
                             Append(enriched_claims,
                                    [text |-> q, rationale |-> c.rationale,
                                     confidence |-> c.confidence, sources |-> Prefix(sources, 2)])
        /\ ci' = ci + 1
        /\ pc' = IF ci >= Len(todo) THEN "persist" ELSE "enrich"
  /\ UNCHANGED <<raw_results, ranked, clients, constructed, arts, ai, buckets, cfg, payload, full, article_text, task, deadline, thr, ret, score_res,
                 summary_text, claims, highlights, db, status, body>>

\* lines 213-260: the overall score, the Article row, the Highlight rows, the response
Persist ==
  /\ pc = "persist"
  /\ \E bias_index \in _bias_index_from_scores(score_res.scores) :
       LET scores  == score_res.scores
           overall == [value |-> bias_index, band |-> _bias_band(bias_index)]
           row     == [url |-> payload.url, scores |-> scores, highlights |-> highlights,
                       summary |-> summary_text, claims |-> enriched_claims]
       IN /\ db' = [db EXCEPT !.articles   = Append(@, row),
                              !.highlights = @ \o highlights]
          /\ body' = [summary |-> row.summary, scores |-> row.scores, overall |-> overall,
                      claims |-> row.claims]
  /\ status' = 201
  /\ pc' = "done"
  /\ UNCHANGED <<raw_results, ranked, clients, constructed, arts, ai, buckets, cfg, payload, full, article_text, clock, task, deadline, thr, ret, score_res,
                 summary_text, claims, highlights, enriched_claims, ci, invoked>>

Next ==
  \/ Receive
  \/ RejectNoInput
  \/ UseText
  \/ FetchUrl
  \/ Launch
  \/ \E th \in ScoreThreads : ScoreRespond(th)
  \/ \E th \in ScoreThreads : ScoreLocal(th)
  \/ \E th \in SummaryThreads : SummaryRespond(th)
  \/ \E th \in SummaryThreads : SummaryLocal(th)
  \/ ClaimsRespond
  \/ ClaimsLocal
  \/ Tick
  \/ Timeout
  \/ GatherOk
  \/ GatherTimeout
  \/ RerunScoreDone
  \/ RerunSummaryDone
  \/ Assemble
  \/ EnrichClaim
  \/ Persist

Spec == Init /\ [][Next]_vars

(* ------------------------------------------------------------------ *)
(* The highlight merge on its own: the handler at line 129, gather     *)
(* having handed over a scoring result and a summary, for a wider      *)
(* range of scoring results than the request handler above is run with *)
(* ------------------------------------------------------------------ *)
MergeTexts == {TextCritics, TextPlain, TextLeak, TextMixed, TextLoud}

\* what llm_score may have returned: a validated remote answer or the heuristic's
MergeScoreResults(text) ==
  {Validated(ScoreJson(GoodScores, TRUE, hl)) : hl \in HighlightLists} \cup {_rule_based(text)}

MergeSummaries(text) == {Strip(SumTwo), Strip(SumLeak), Strip(SumLong), SummaryFallback(text), <<>>}

MergeInit ==
  /\ raw_results = <<>>
  /\ ranked = <<>>
  /\ clients = NoClients
  /\ constructed = NoClients
  /\ arts = <<>>
  /\ ai = 1
  /\ buckets = <<>>
  /\ cfg = [openai |-> TRUE, anthropic |-> TRUE]
  /\ pc = "assemble"
  /\ \E t \in MergeTexts :
       /\ payload = [url |-> FALSE, text |-> t]
       /\ article_text = t
       /\ score_res \in MergeScoreResults(t)
       /\ summary_text \in MergeSummaries(t)
  /\ full = FALSE
  /\ clock = 0
  /\ task = [t \in TaskNames |-> IF t = "claims" THEN "none" ELSE "done"]
  /\ deadline = [t \in TaskNames |-> IF t = "claims" THEN 0 ELSE TaskTimeout]
  /\ thr = [th \in Threads |-> IF th \in {"score1", "summary1"} THEN "returned" ELSE "idle"]
  /\ ret = NoRet
  /\ claims = <<>>
  /\ highlights = <<>>
  /\ enriched_claims = <<>>
  /\ ci = 1
  /\ invoked = [c \in CallNames |-> IF c \in {"llm_score", "llm_summary"} THEN 1 ELSE 0]
  /\ db = [articles |-> <<>>, highlights |-> <<>>, narratives |-> <<>>]
  /\ status = 0
  /\ body = NoBody

MergeNext ==
  \/ Assemble
  \/ Persist

MergeSpec == MergeInit /\ [][MergeNext]_vars

(* ------------------------------------------------------------------ *)
(* The bias index on its own: lines 213-215 applied to a score set     *)
(* ------------------------------------------------------------------ *)
\* values a dimension is given
ScoreGrid == {0, 1, 7, 100}

\* score sets: every dimension scored, none, or only one
ScoreSets ==
  [AllDimensions -> ScoreGrid]
  \cup {<<>>}
  \cup {[d \in {"emotional_tone"} |-> v] : v \in ScoreGrid}

IndexInit ==
  /\ raw_results = <<>>
  /\ ranked = <<>>
  /\ clients = NoClients
  /\ constructed = NoClients
  /\ arts = <<>>
  /\ ai = 1
  /\ buckets = <<>>
  /\ cfg = [openai |-> FALSE, anthropic |-> FALSE]
  /\ pc = "index"
  /\ payload = [url |-> FALSE, text |-> TextPlain]
  /\ article_text = TextPlain
  /\ full = FALSE
  /\ clock = 0
  /\ task = [t \in TaskNames |-> "none"]
  /\ deadline = [t \in TaskNames |-> 0]
  /\ thr = [th \in Threads |-> "idle"]
  /\ ret = NoRet
  /\ \E sc \in ScoreSets : score_res = [scores |-> sc, highlights |-> <<>>]
  /\ summary_text = <<>>
  /\ claims = <<>>
  /\ highlights = <<>>
  /\ enriched_claims = <<>>
  /\ ci = 1
  /\ invoked = [c \in CallNames |-> 0]
  /\ db = [articles |-> <<>>, highlights |-> <<>>, narratives |-> <<>>]
  /\ status = 0
  /\ body = NoBody

\* lines 214-215: bias_index and overall
ComputeOverall ==
  /\ pc = "index"
  /\ \E bias_index \in _bias_index_from_scores(score_res.scores) :
       body' = [body EXCEPT !.overall = [value |-> bias_index, band |-> _bias_band(bias_index)]]
  /\ pc' = "indexed"
  /\ UNCHANGED <<raw_results, ranked, clients, constructed, arts, ai, buckets, cfg, payload, full, article_text, clock, task, deadline, thr, ret, score_res,
                 summary_text, claims, highlights, enriched_claims, ci, invoked, db, status>>

IndexSpec == IndexInit /\ [][ComputeOverall]_vars

(* ------------------------------------------------------------------ *)
(* The claim enrichment on its own: the handler at line 192, gather    *)
(* having handed over the claims of a remote answer                    *)
(* ------------------------------------------------------------------ *)
EnrichInit ==
  /\ raw_results = <<>>
  /\ ranked = <<>>
  /\ clients = NoClients
  /\ constructed = NoClients
  /\ arts = <<>>
  /\ ai = 1
  /\ buckets = <<>>
  /\ cfg = [openai |-> TRUE, anthropic |-> FALSE]
  /\ pc = "enrich"
  /\ payload = [url |-> FALSE, text |-> TextCritics]
  /\ article_text = TextCritics
  /\ full = TRUE
  /\ clock = 0
  /\ task = [t \in TaskNames |-> "done"]
  /\ deadline = [t \in TaskNames |-> TaskTimeout]
  /\ thr = [th \in Threads |-> IF th \in {"score1", "summary1", "claims1"} THEN "returned" ELSE "idle"]
  /\ ret = NoRet
  /\ score_res = _rule_based(TextCritics)
  /\ summary_text = Strip(SumTwo)
  /\ claims \in {ParsedClaims(r) : r \in ClaimLists \cup {LongClaims}}
  /\ highlights = MergeHighlights(score_res.highlights, article_text, summary_text)
  /\ enriched_claims = <<>>
  /\ ci = 1
  /\ invoked = [c \in CallNames |-> IF c = "find_primary_sources" THEN 0 ELSE 1]
  /\ db = [articles |-> <<>>, highlights |-> <<>>, narratives |-> <<>>]
  /\ status = 0
  /\ body = NoBody

EnrichSpec == EnrichInit /\ [][EnrichClaim \/ Persist]_vars

(* ------------------------------------------------------------------ *)
(* Narrative clustering: POST /narratives/cluster                      *)
(* ------------------------------------------------------------------ *)
\* regex class [A-Za-z0-9]
IsAlnum(c) == IsWordChar(c) /\ c # "_"

\* _tokens: the maximal alphanumeric runs of the lowered string, without the
\* stop words and without the runs of one or two characters
_tokens(s) ==
  LET low  == LowerStr(s)
      n    == Len(low)
      stop == {<<"t","h","e">>, <<"a">>, <<"a","n">>, <<"a","n","d">>, <<"o","r">>, <<"t","o">>, <<"o","f">>, <<"f","o","r">>, <<"i","n">>, <<"o","n">>, <<"w","i","t","h">>, <<"a","t">>, <<"b","y">>, <<"f","r","o","m">>, <<"a","b","o","u","t">>}
      runs == {r \in (1..n) \X (1..n) :
                 /\ r[1] <= r[2]
                 /\ \A k \in r[1]..r[2] : IsAlnum(low[k])
                 /\ r[1] = 1 \/ ~IsAlnum(low[r[1] - 1])
                 /\ r[2] = n \/ ~IsAlnum(low[r[2] + 1])}
      toks == {SubSeq(low, r[1], r[2]) : r \in runs}
  IN {t \in toks : t \notin stop /\ Len(t) > 2}

\* _sim: the Jaccard ratio inter/union as the pair of its terms (0/1 when either
\* set is empty). The sets are small, so the float quotient compares with a
\* threshold given in hundredths exactly as the fraction does.
_sim_OverSmaller(a, b) ==
  IF a = {} \/ b = {} THEN [inter |-> 0, union |-> 1]
  ELSE [inter |-> Cardinality(a \cap b), union |-> IMin(Cardinality(a), Cardinality(b))]

_sim(a, b) ==
  IF a = {} \/ b = {} THEN [inter |-> 0, union |-> 1]
  ELSE [inter |-> Cardinality(a \cap b), union |-> Cardinality(a \cup b)]

\* a.title or a.url or f"article-{a.id}"
TitleOf(a) ==
  IF a.title # <<>> THEN a.title
  ELSE IF a.url # <<>> THEN a.url
  ELSE <<"a","r","t","i","c","l","e","-">> \o <<Digit(a.id)>>

\* sorted(set(ids), reverse=True)
SortedIds(ids) ==
  LET S == {ids[i] : i \in 1..Len(ids)}
  IN [k \in 1..Cardinality(S) |-> CHOOSE x \in S : Cardinality({y \in S : y > x}) = k - 1]

\* x < y for two lower-case alphanumeric strings of the same length
LexLess(x, y) ==
  LET code(c) == IF c \in DigitChars THEN CHOOSE i \in 1..10 : DigitSeq[i] = c
                 ELSE 10 + CHOOSE i \in 1..26 : LowerChars[i] = c
  IN \E i \in 1..Len(x) : /\ code(x[i]) < code(y[i])
                          /\ \A j \in 1..(i - 1) : x[j] = y[j]

\* sorted(tokens, key=lambda x: (-len(x), x))[:3]
TopTokens(tokens) ==
  LET before(x) == {y \in tokens : \/ Len(y) > Len(x)
                                   \/ Len(y) = Len(x) /\ LexLess(y, x)}
      n == IMin(3, Cardinality(tokens))
  IN [k \in 1..n |-> CHOOSE x \in tokens : Cardinality(before(x)) = k - 1]

\* " / ".join(top)
RECURSIVE JoinSlash(_)
JoinSlash(parts) ==
  IF Len(parts) = 0 THEN <<>>
  ELSE IF Len(parts) = 1 THEN parts[1]
  ELSE parts[1] \o <<" ", "/", " ">> \o JoinSlash(Tail(parts))

\* str.title(): a letter is upper-cased after a non-letter, lower-cased otherwise
TitleCase(s) ==
  LET letter(c) == \E i \in 1..26 : UpperChars[i] = c \/ LowerChars[i] = c
      upper(c)  == UpperChars[CHOOSE i \in 1..26 : UpperChars[i] = c \/ LowerChars[i] = c]
  IN [i \in 1..Len(s) |->
        IF ~letter(s[i]) THEN s[i]
        ELSE IF i = 1 \/ ~letter(s[i - 1]) THEN upper(s[i])
        ELSE LowerChar(s[i])]

\* lines 116-132: the Narrative row made of one bucket (the creation time is
\* left out of data)
NarrativeOf(b) ==
  LET ids   == SortedIds(b.ids)
      reps  == {i \in 1..Len(arts) : arts[i].id = ids[1]}
      rep   == arts[SetMin(reps)]
      label == IF b.tokens # {} THEN TitleCase(JoinSlash(TopTokens(b.tokens)))
               ELSE IF reps # {} /\ rep.title # <<>> THEN rep.title
               ELSE <<"N","a","r","r","a","t","i","v","e">>
  IN [label |-> label,
      data  |-> [article_ids |-> ids,
                 summary |-> <<"C","l","u","s","t","e","r"," ","o","f"," ">> \o <<Digit(Len(ids))>> \o <<" ","r","e","l","a","t","e","d"," ","s","t","o","r","i","e","s",".">>]]

\* the stored articles the clustering is tried on, oldest first
ArticlePool ==
  <<[id |-> 1, title |-> <<"S","e","n","a","t","e"," ","p","a","s","s","e","s"," ","c","l","i","m","a","t","e"," ","b","i","l","l">>, url |-> <<>>],
    [id |-> 2, title |-> <<"S","e","n","a","t","e"," ","a","p","p","r","o","v","e","s"," ","c","l","i","m","a","t","e"," ","l","e","g","i","s","l","a","t","i","o","n">>, url |-> <<>>],
    [id |-> 3, title |-> <<"L","o","c","a","l"," ","b","a","k","e","r","y"," ","w","i","n","s"," ","a","w","a","r","d">>, url |-> <<>>],
    [id |-> 4, title |-> <<"S","E","N","A","T","E",":"," ","t","h","e"," ","c","l","i","m","a","t","e"," ","B","i","l","l","!">>, url |-> <<>>],
    [id |-> 5, title |-> <<>>, url |-> <<>>],
    [id |-> 6, title |-> <<"G","o"," ","o","n">>, url |-> <<"h","t","t","p","s",":","/","/","x",".","i","o","/","g","o">>],
    [id |-> 7, title |-> <<"S","e","n","a","t","e"," ","p","a","s","s","e","s"," ","b","u","d","g","e","t">>, url |-> <<>>]>>

\* the rows of a database holding the articles of the pool whose ids are in S
RowsOf(S) ==
  LET F[i \in 0..Len(ArticlePool)] ==
        IF i = 0 THEN <<>>
        ELSE IF i \in S THEN Append(F[i - 1], ArticlePool[i])
        ELSE F[i - 1]
  IN F[Len(ArticlePool)]

\* a cluster request arrives: window and threshold (in hundredths) are query
\* parameters within their declared ranges
ClusterInit ==
  /\ raw_results = <<>>
  /\ ranked = <<>>
  /\ clients = NoClients
  /\ constructed = NoClients
  /\ arts = <<>>
  /\ ai = 1
  /\ buckets = <<>>
  /\ cfg = [openai |-> FALSE, anthropic |-> FALSE]
  /\ pc = "cluster"
  /\ \E window \in {5, 50}, threshold \in {10, 33, 35, 90} :
       payload = [window |-> window, threshold |-> threshold]
  /\ article_text = <<>>
  /\ full = FALSE
  /\ clock = 0
  /\ task = [t \in TaskNames |-> "none"]
  /\ deadline = [t \in TaskNames |-> 0]
  /\ thr = [th \in Threads |-> "idle"]
  /\ ret = NoRet
  /\ score_res = NoScore
  /\ summary_text = <<>>
  /\ claims = <<>>
  /\ highlights = <<>>
  /\ enriched_claims = <<>>
  /\ ci = 1
  /\ invoked = [c \in CallNames |-> 0]
  /\ \E S \in SUBSET (1..Len(ArticlePool)) :
       db = [articles |-> RowsOf(S), highlights |-> <<>>, narratives |-> <<>>]
  /\ status = 0
  /\ body = NoBody

\* lines 98-100: select ... order_by(Article.id.desc()).limit(window); no article, empty answer
ReadWindow ==
  /\ pc = "cluster"
  /\ LET n    == Len(db.articles)
         desc == [k \in 1..n |-> db.articles[n + 1 - k]]
         read == Prefix(desc, payload.window)
     IN /\ arts' = read
        /\ IF read = <<>>
           THEN /\ pc' = "clustered"
                /\ status' = 200
                /\ body' = <<>>
           ELSE /\ pc' = "bucketing"
                /\ UNCHANGED <<status, body>>
  /\ ai' = 1
  /\ buckets' = <<>>
  /\ UNCHANGED <<raw_results, ranked, clients, constructed, cfg, payload, full, article_text, clock, task, deadline, thr, ret, score_res,
                 summary_text, claims, highlights, enriched_claims, ci, invoked, db>>

\* a loop without the break: the article joins every qualifying bucket
PlaceArticle_NoBreak ==
  /\ pc = "bucketing"
  /\ ai <= Len(arts)
  /\ LET a   == arts[ai]
         t   == _tokens(TitleOf(a))
         hit == {j \in 1..Len(buckets) :
                   LET sim == _sim(t, buckets[j].tokens)
                   IN sim.inter * 100 >= payload.threshold * sim.union}
     IN buckets' = IF hit = {}
                   THEN Append(buckets, [tokens |-> t, ids |-> <<a.id>>])
                   ELSE [j \in 1..Len(buckets) |->
                           IF j \in hit
                           THEN [tokens |-> buckets[j].tokens \cup t,
                                 ids |-> Append(buckets[j].ids, a.id)]
                           ELSE buckets[j]]
  /\ ai' = ai + 1
  /\ UNCHANGED <<raw_results, ranked, clients, constructed, arts, cfg, payload, full,
                 article_text, clock, task, deadline, thr, ret, score_res, summary_text, claims,
                 highlights, enriched_claims, ci, invoked, db, status, pc, body>>

\* a loop that puts the article into the most similar qualifying bucket
PlaceArticle_BestFit ==
  /\ pc = "bucketing"
  /\ ai <= Len(arts)
  /\ LET a   == arts[ai]
         t   == _tokens(TitleOf(a))
         sim(j) == _sim(t, buckets[j].tokens)
         hit == {j \in 1..Len(buckets) : sim(j).inter * 100 >= payload.threshold * sim(j).union}
         best == CHOOSE j \in hit :
                   \A k \in hit : sim(j).inter * sim(k).union >= sim(k).inter * sim(j).union
     IN buckets' = IF hit = {}
                   THEN Append(buckets, [tokens |-> t, ids |-> <<a.id>>])
                   ELSE [buckets EXCEPT ![best] =
                           [tokens |-> @.tokens \cup t, ids |-> Append(@.ids, a.id)]]
  /\ ai' = ai + 1
  /\ UNCHANGED <<raw_results, ranked, clients, constructed, arts, cfg, payload, full, article_text, clock, task,
                 deadline, thr, ret, score_res, summary_text, claims, highlights,
                 enriched_claims, ci, invoked, db, status, pc, body>>

\* lines 103-113: one turn of the bucketing loop
PlaceArticle ==
  /\ pc = "bucketing"
  /\ ai <= Len(arts)
  /\ LET a   == arts[ai]
         t   == _tokens(TitleOf(a))
         hit == {j \in 1..Len(buckets) :
                   LET sim == _sim(t, buckets[j].tokens)
                   IN sim.inter * 100 >= payload.threshold * sim.union}
     IN buckets' = IF hit = {}
                   THEN Append(buckets, [tokens |-> t, ids |-> <<a.id>>])
                   ELSE [buckets EXCEPT ![SetMin(hit)] =
                           [tokens |-> @.tokens \cup t, ids |-> Append(@.ids, a.id)]]
  /\ ai' = ai + 1
  /\ UNCHANGED <<raw_results, ranked, clients, constructed, arts, cfg, payload, full, article_text, clock, task, deadline, thr, ret,
                 score_res, summary_text, claims, highlights, enriched_claims, ci, invoked,
                 db, status, pc, body>>

\* lines 115-136: one Narrative per bucket, added, committed and returned
EmitNarratives ==
  /\ pc = "bucketing"
  /\ ai > Len(arts)
  /\ LET outs == [j \in 1..Len(buckets) |-> NarrativeOf(buckets[j])]
     IN /\ db' = [db EXCEPT !.narratives = @ \o outs]
        /\ body' = outs
  /\ status' = 200
  /\ pc' = "clustered"
  /\ UNCHANGED <<raw_results, ranked, clients, constructed, arts, ai, buckets, cfg, payload, full, article_text, clock, task, deadline,
                 thr, ret, score_res, summary_text, claims, highlights, enriched_claims, ci,
                 invoked>>

ClusterSpec == ClusterInit /\ [][ReadWindow \/ PlaceArticle \/ EmitNarratives]_vars

(* ------------------------------------------------------------------ *)
(* The lazily made remote clients of llm_score (llm.py lines 8-23),    *)
(* with the steps of _get_openai / _get_anthropic taken one at a time  *)
(* by the worker threads score1 and score2                             *)
(* ------------------------------------------------------------------ *)
\* the backend whose client a thread is fetching, making or calling
BackendAt(pos) ==
  IF pos \in {"get_openai", "new_openai", "openai"} THEN "openai" ELSE "anthropic"

\* where llm_score goes on when the try block of a backend is left without a result
AfterBackend(b) == IF b = "openai" THEN "get_anthropic" ELSE "local"

\* the gather has timed out and llm_score is run again (line 125) while the thread
\* of the first round is still executing: not yet scheduled, or waiting for the
\* answer of the first backend with the client it made
ClientInit ==
  /\ raw_results = <<>>
  /\ ranked = <<>>
  /\ arts = <<>>
  /\ ai = 1
  /\ buckets = <<>>
  /\ cfg \in [openai : BOOLEAN, anthropic : BOOLEAN]
  /\ pc = "rerun_score"
  /\ payload = [url |-> FALSE, text |-> TextCritics]
  /\ article_text = TextCritics
  /\ full = FALSE
  /\ clock = TaskTimeout
  /\ task = [t \in TaskNames |-> IF t = "claims" THEN "none" ELSE "timedout"]
  /\ deadline = [t \in TaskNames |-> IF t = "claims" THEN 0 ELSE TaskTimeout]
  /\ \E started \in BOOLEAN :
       /\ started => cfg.openai
       /\ thr = [th \in Threads |->
                   CASE th = "score1"   -> IF started THEN "openai" ELSE "get_openai"
                     [] th = "score2"   -> "get_openai"
                     [] th = "summary1" -> "local"
                     [] OTHER           -> "idle"]
       /\ clients = [NoClients EXCEPT !.openai = IF started THEN 1 ELSE 0]
       /\ constructed = clients
  /\ ret = NoRet
  /\ score_res = NoScore
  /\ summary_text = <<>>
  /\ claims = <<>>
  /\ highlights = <<>>
  /\ enriched_claims = <<>>
  /\ ci = 1
  /\ invoked = [c \in CallNames |-> IF c \in {"llm_score"} THEN 2
                                    ELSE IF c = "llm_summary" THEN 1 ELSE 0]
  /\ db = [articles |-> <<>>, highlights |-> <<>>, narratives |-> <<>>]
  /\ status = 0
  /\ body = NoBody

\* lines 12-13 and 19-20, 16 and 23: the global is read; a thread that finds it
\* None with the key configured goes on to make the client, one that finds a
\* client returns it, and with no key the function returns None
GetClient(th) ==
  /\ thr[th] \in {"get_openai", "get_anthropic"}
  /\ LET b == BackendAt(thr[th])
     IN thr' = [thr EXCEPT ![th] =
                  IF clients[b] = 0 /\ cfg[b] THEN IF b = "openai" THEN "new_openai" ELSE "new_anthropic"
                  ELSE IF clients[b] # 0 THEN b
                  ELSE AfterBackend(b)]
  /\ UNCHANGED <<raw_results, ranked, clients, constructed, arts, ai, buckets, cfg, pc, payload, full, article_text,
                 clock, task, deadline, ret, score_res, summary_text, claims, highlights,
                 enriched_claims, ci, invoked, db, status, body>>

\* lines 14-15 and 21-22: the import, the construction and the store to the global
NewClient(th) ==
  /\ thr[th] \in {"new_openai", "new_anthropic"}
  /\ LET b == BackendAt(thr[th])
     IN /\ constructed' = [constructed EXCEPT ![b] = @ + 1]
        /\ clients' = [clients EXCEPT ![b] = constructed[b] + 1]
        /\ thr' = [thr EXCEPT ![th] = b]
  /\ UNCHANGED <<raw_results, ranked, arts, ai, buckets, cfg, pc, payload, full, article_text, clock, task,
                 deadline, ret, score_res, summary_text, claims, highlights, enriched_claims, ci, invoked,
                 db, status, body>>

\* lines 114-127 and 133-148: the backend answers; a valid answer is returned, any
\* other outcome is swallowed and the next block of llm_score is entered
CallRemote(th) ==
  /\ thr[th] \in {"openai", "anthropic"}
  /\ \E r \in ScoreResponses :
       IF r.kind = "json" /\ ValidDims(r) THEN Return(th, Validated(r))
       ELSE /\ thr' = [thr EXCEPT ![th] = AfterBackend(thr[th])]
            /\ UNCHANGED <<ret, task, invoked>>
  /\ UNCHANGED <<raw_results, ranked, clients, constructed, arts, ai, buckets, cfg, pc, payload, full, article_text,
                 clock, deadline, score_res, summary_text, claims, highlights, enriched_claims,
                 ci, db, status, body>>

ClientNext ==
  \E th \in ScoreThreads : GetClient(th) \/ NewClient(th) \/ CallRemote(th) \/ ScoreLocal(th)

ClientSpec == ClientInit /\ [][ClientNext]_vars

(* ------------------------------------------------------------------ *)
(* Properties of the request handler                                   *)
(* ------------------------------------------------------------------ *)
Failed == status \in {400, 500}

RemotePositions == {"openai", "anthropic"}

FirstRound == {"score1", "summary1", "claims1"}

AfterGather == {"assemble", "enrich", "persist", "done", "failed"}

SomeTimedOut == \E t \in TaskNames : task[t] = "timedout"

\* C1: a request with analysable text never ends in an error, whatever the remote
\* backends answered (including five valid scores with unreadable highlight entries)
C1_BackendOutcomeNeverFailsRequest == article_text # <<>> => ~Failed

\* C2: every remote call the handler is waiting for is bounded by a deadline, the
\* re-run score and summarize calls after a timeout included
C2_EveryAwaitedCallHasDeadline ==
  \A th \in Threads :
    (Awaited(th) /\ thr[th] \in RemotePositions)
      => (th \in FirstRound /\ task[TaskOf(th)] = "pending")

\* C3 (as claimed): a task that exceeds its deadline costs the report nothing of its
\* siblings: claims extracted in time (here by the local extractor, whose output the
\* text determines) are in the report
C3_SiblingResultsKept ==
  (pc = "done" /\ full /\ task["claims"] = "done" /\ ~cfg.openai)
    => Len(body.claims) = Len(ClaimsFallback(article_text))

\* C3 (amended): a task that exceeds its deadline leaves its siblings' threads
\* running, but the results of the whole round are discarded: llm_score and
\* llm_summary are run a second time, extract_claims is not, and the report carries
\* no claims even when they had been extracted in time
C3_TimeoutDiscardsRound ==
  /\ [][\A t \in TaskNames :
          (task[t] = "pending" /\ task'[t] = "timedout")
            => /\ clock >= deadline[t]
               /\ thr' = thr
               /\ \A u \in TaskNames : task[u] = "done" => task'[u] = "done"]_vars
  /\ []((SomeTimedOut /\ pc \in AfterGather)
          => /\ claims = <<>>
             /\ enriched_claims = <<>>
             /\ invoked["llm_score"] = 2
             /\ invoked["llm_summary"] = 2
             /\ invoked["extract_claims"] <= 1)

\* scoring timed out, the claims had been extracted in time, the report has none
C3_Witness ==
  /\ pc = "done"
  /\ full
  /\ task["score"] = "timedout"
  /\ task["claims"] = "done"
  /\ task["summary"] = "done"
  /\ body.claims = <<>>

\* C4: while the report is assembled no call launched for the request is still running
C4_AssembledAfterAllSettled ==
  pc \in {"assemble", "enrich", "persist"}
    => \A th \in FirstRound : thr[th] \in {"idle", "returned"}

WellFormedScores(scores) ==
  /\ AllDimensions \subseteq DOMAIN scores
  /\ \A d \in AllDimensions : scores[d] \in 0..100

\* C5: a primary answer without five numeric scores is not accepted and does not go
\* straight to the heuristic when a secondary backend exists; what llm_score returns
\* is an answer with five numeric scores or the heuristic's result, which carries all
\* five dimensions, each in 0..100, for every text
C5_ScoreFallbackChain ==
  /\ [][\A th \in ScoreThreads :
          (thr[th] = "openai" /\ thr'[th] # "openai" /\ cfg.anthropic)
            => \/ thr'[th] = "anthropic"
               \/ /\ thr'[th] = "returned"
                  /\ Awaited(th) => ret'[th] # _rule_based(article_text)]_vars
  /\ [](\A th \in ScoreThreads :
          (thr[th] = "returned" /\ ret[th] # <<>>)
            => /\ AllDimensions \subseteq DOMAIN ret[th].scores
               /\ \/ ret[th] = _rule_based(article_text)
                  \/ \E r \in GoodScoreResponses : ret[th] = Validated(r)
               /\ ret[th] = _rule_based(article_text) => WellFormedScores(ret[th].scores))
  /\ [](WellFormedScores(_rule_based(article_text).scores))

\* both remote scorers were configured and failed: the handler works on the heuristic's result
C5_Witness ==
  /\ cfg.openai /\ cfg.anthropic
  /\ pc = "assemble"
  /\ article_text = TextLoud
  /\ score_res = _rule_based(article_text)

\* C6: a request fails only for want of text, before any backend call and without
\* anything persisted
C6_OnlyMissingTextFails ==
  Failed => /\ article_text = <<>>
            /\ \A c \in CallNames : invoked[c] = 0
            /\ \A th \in Threads : thr[th] = "idle"
            /\ db = [articles |-> <<>>, highlights |-> <<>>, narratives |-> <<>>]

(* ------------------------------------------------------------------ *)
(* Properties of the merged highlight list                             *)
(* ------------------------------------------------------------------ *)
Merged == pc \in {"enrich", "persist", "done"}

\* the k-th smallest element of a set of numbers
Kth(S, k) == CHOOSE x \in S : Cardinality({y \in S : y <= x}) = k

\* indices of the scoring result's entries whose trimmed text is non-empty and free
\* of the leakage marker
KeptIdx(raw) ==
  {i \in 1..Len(raw) : Strip(raw[i].text) # <<>> /\ ~Contains(Marker, LowerStr(Strip(raw[i].text)))}

BackendPair(h) ==
  <<IF h.dimension = Missing THEN "framing_choices" ELSE h.dimension, Strip(h.text)>>

BackendPairs(raw) == {BackendPair(raw[i]) : i \in KeptIdx(raw)}

LocalPair(e) == <<e.dimension, e.data.text>>

\* indices of the extractor's entries that collide neither with the scoring
\* result nor with an earlier entry of the extractor
FreshIdx(raw, ex) ==
  {j \in 1..Len(ex) :
     /\ ex[j].data.text # <<>>
     /\ LocalPair(ex[j]) \notin BackendPairs(raw)
     /\ \A k \in 1..(j - 1) : LocalPair(ex[k]) # LocalPair(ex[j])}

\* backend survivors in backend order, then fresh extractor entries in extractor
\* order, then (only when both are empty) the synthesized fallbacks
ExpectedHighlights(raw, text, summary) ==
  LET ex == extract_highlights(text)
      nb == Cardinality(KeptIdx(raw))
      nf == Cardinality(FreshIdx(raw, ex))
  IN IF nb + nf = 0
     THEN (IF summary # <<>> THEN Synthesized(summary) ELSE <<>>)
     ELSE [k \in 1..(nb + nf) |->
             IF k <= nb THEN _norm(raw[Kth(KeptIdx(raw), k)])
             ELSE LET e == ex[Kth(FreshIdx(raw, ex), k - nb)]
                  IN [dimension |-> e.dimension, text |-> e.data.text, start |-> e.data.start,
                      end |-> e.data.end, reason |-> e.data.reason,
                      confidence |-> e.data.confidence]]

\* C7: no two entries of the merged list share (dimension, text)
C7_NoDuplicatePair ==
  Merged => \A i, j \in 1..Len(highlights) :
              i < j => PairOf(highlights[i]) # PairOf(highlights[j])

\* C8: no entry of the merged list has empty trimmed text or carries the leakage marker
C8_NoEmptyNoLeak ==
  Merged => \A i \in 1..Len(highlights) :
              /\ Strip(highlights[i].text) # <<>>
              /\ ~Contains(Marker, LowerStr(highlights[i].text))

\* C9: the merged list is the first 20 entries of: backend survivors in backend order,
\* then non-colliding extractor entries in extractor order, then synthesized
\* fallbacks; on a collision the backend's entry is the one kept
C9_FirstTwentyInAssemblyOrder ==
  Merged =>
    LET raw == score_res.highlights
        exp == ExpectedHighlights(raw, article_text, summary_text)
    IN /\ Len(highlights) <= HighlightCap
       /\ highlights = SubSeq(exp, 1, IMin(Len(exp), HighlightCap))
       /\ \A k \in 1..Len(highlights) :
            PairOf(highlights[k]) \in BackendPairs(raw)
              => \E i \in KeptIdx(raw) : highlights[k] = _norm(raw[i])

\* more than 20 entries were assembled, one of them found by both producers
C9_Witness ==
  /\ pc = "done"
  /\ Len(highlights) = HighlightCap
  /\ Len(ExpectedHighlights(score_res.highlights, article_text, summary_text)) > HighlightCap
  /\ \E i \in 1..Len(score_res.highlights) : score_res.highlights[i] = hCritics
  /\ article_text = TextCritics

\* C10: every merged entry has 0 <= end - start <= 2000; a backend entry with an
\* unusable span is kept with span (0,0), one with a usable span keeps its span
C10_SpansNormalized ==
  Merged =>
    LET raw == score_res.highlights
        nb  == Cardinality(KeptIdx(raw))
    IN /\ \A k \in 1..Len(highlights) :
            /\ highlights[k].end >= highlights[k].start
            /\ highlights[k].end - highlights[k].start <= MaxSpan
       /\ \A k \in 1..IMin(nb, HighlightCap) :
            LET r == raw[Kth(KeptIdx(raw), k)]
            IN /\ k <= Len(highlights)
               /\ highlights[k].text = Strip(r.text)
               /\ IF r.end < r.start \/ r.end - r.start > MaxSpan
                  THEN highlights[k].start = 0 /\ highlights[k].end = 0
                  ELSE highlights[k].start = r.start /\ highlights[k].end = r.end

\* one backend entry 2001 wide was zeroed, one exactly 2000 wide kept its span
C10_Witness ==
  /\ pc = "done"
  /\ score_res.highlights = <<hEdge, hWide>>
  /\ Len(highlights) >= 2
  /\ highlights[1].start = hEdge.start /\ highlights[1].end = hEdge.end
  /\ highlights[2].start = 0 /\ highlights[2].end = 0

(* ------------------------------------------------------------------ *)
(* Properties of the synthesized fallback highlights                   *)
(* ------------------------------------------------------------------ *)
FallbackReason == "Representative sentence extracted as fallback."

\* the merged list is what the fallback rule prescribes, every synthesized text being
\* the first cut characters of its sentence
SynthesizedAsRuled(cut) ==
  LET raw   == score_res.highlights
      ex    == extract_highlights(article_text)
      nb    == Cardinality(KeptIdx(raw))
      nf    == Cardinality(FreshIdx(raw, ex))
      sents == SplitSentences(Strip(summary_text))
      q     == {i \in 1..Len(sents) : WordCount(sents[i]) >= MinSentenceWords}
      n     == IMin(MaxSynthesized, Cardinality(q))
  IN IF nb + nf = 0 /\ summary_text # <<>>
     THEN /\ Len(highlights) = n
          /\ \A k \in 1..n :
               highlights[k] =
                 [dimension  |-> IF k = 1 THEN "framing_choices" ELSE "emotional_tone",
                  text       |-> Prefix(sents[Kth(q, k)], cut),
                  start      |-> 0,
                  end        |-> 0,
                  reason     |-> FallbackReason,
                  confidence |-> 60]
     ELSE /\ Len(highlights) = IMin(HighlightCap, nb + nf)
          /\ \A k \in 1..Len(highlights) : highlights[k].reason # FallbackReason

\* C11 (as claimed): synthesized highlights appear iff no backend entry survived, the
\* extractor found nothing and a summary exists, and they are the first (at most 2)
\* summary sentences of at least 8 words, whole, with the fixed dimensions, confidence
\* 0.6 and span (0,0)
C11_SynthesizedAreSentences == Merged => SynthesizedAsRuled(MaxSpan)

\* C11 (amended): as above, each synthesized highlight carrying the first 240
\* characters of its sentence
C11_SynthesizedAreSentencePrefixes == Merged => SynthesizedAsRuled(SynthTextLen)

\* the fallback ran on a summary with three sentences of 8 words, the first longer than
\* 240 characters: two highlights, the first cut to 240 characters
C11_Witness ==
  /\ pc = "done"
  /\ summary_text = Strip(SumLong)
  /\ Len(highlights) = MaxSynthesized
  /\ highlights[1].reason = FallbackReason
  /\ Len(highlights[1].text) = SynthTextLen
  /\ highlights[2].dimension = "emotional_tone"

(* ------------------------------------------------------------------ *)
(* Properties of the enriched claims                                   *)
(* ------------------------------------------------------------------ *)
\* urlparse(url).hostname: the netloc in lower case without its port
HostOf(url) ==
  LET n     == Netloc(LowerStr(url))
      colon == {i \in 1..Len(n) : n[i] = ":"}
  IN IF colon = {} THEN n ELSE SubSeq(n, 1, SetMin(colon) - 1)

\* C12: every claim of the report carries at most 2 sources, no two of them on the
\* same host
C12_AtMostTwoSourcesOnePerHost ==
  \A i \in 1..Len(enriched_claims) :
    LET src == enriched_claims[i].sources
    IN /\ Len(src) <= 2
       /\ \A a, b \in 1..Len(src) : a < b => HostOf(src[a].url) # HostOf(src[b].url)

Indexed == pc = "indexed"

\* every dimension of the score set is 0 or missing
AllZero(scores) == \A d \in DOMAIN scores : scores[d] = 0

\* C14 (as claimed): an all-zero and an empty score set have value 0 and band "low"
C14_AllZeroAndEmptyAreZeroLow ==
  (Indexed /\ AllZero(score_res.scores)) => body.overall = [value |-> 0, band |-> "low"]

\* C14 (amended): an empty score set has value 0 and band "low"; a non-empty score set
\* whose dimensions are all 0 or missing has value 45 and band "medium"
C14_EmptyIsZeroAllZeroIs45 ==
  (Indexed /\ AllZero(score_res.scores)) =>
     IF DOMAIN score_res.scores = {}
     THEN body.overall = [value |-> 0, band |-> "low"]
     ELSE body.overall = [value |-> 45, band |-> "medium"]

\* five dimensions, each 0: value 45
C14_Witness ==
  /\ Indexed
  /\ score_res.scores = [d \in AllDimensions |-> 0]
  /\ body.overall.value = 45

\* 100 times the weighted sum of a full score set
WeightedHundredths(sc) ==
  25 * sc["framing_choices"] + 25 * (100 - sc["factual_grounding"])
  + 20 * (100 - sc["source_transparency"]) + 15 * sc["emotional_tone"]
  + 15 * sc["ideological_stance"]

\* C15: for five integer scores in 0..100 the value is an integer nearest to the
\* weighted sum (at most 0.5 away), lies in 0..100, and the band is low below 30,
\* medium from 30 below 50, high from 50 below 70, extremely_high from 70
C15_NearestIntegerAndBands ==
  (Indexed /\ DOMAIN score_res.scores = AllDimensions) =>
     LET v == body.overall.value
         b == body.overall.band
         n == WeightedHundredths(score_res.scores)
     IN /\ v \in 0..100
        /\ 100 * v - n \in -50..50
        /\ (b = "low") <=> (v < 30)
        /\ (b = "medium") <=> (30 <= v /\ v < 50)
        /\ (b = "high") <=> (50 <= v /\ v < 70)
        /\ (b = "extremely_high") <=> (v >= 70)

\* a weighted sum of exactly 70: the lowest "extremely_high" value
C15_Witness ==
  /\ Indexed
  /\ DOMAIN score_res.scores = AllDimensions
  /\ WeightedHundredths(score_res.scores) = 7000
  /\ body.overall = [value |-> 70, band |-> "extremely_high"]

(* ------------------------------------------------------------------ *)
(* Properties with every remote backend disabled                       *)
(* ------------------------------------------------------------------ *)
AllRemoteDisabled == ~cfg.openai /\ ~cfg.anthropic

Reported == pc = "done" /\ status = 201

\* the highlights stored with the article of the answered request
ReportHighlights == db.articles[Len(db.articles)].highlights

\* the report holds a highlight of dimension dim whose text is phrase in any case
HasHighlight(dim, phrase) ==
  \E j \in 1..Len(ReportHighlights) :
    /\ ReportHighlights[j].dimension = dim
    /\ LowerStr(ReportHighlights[j].text) = phrase

\* C17: with no remote backend enabled, every (dimension, matched text) the
\* pattern extractor finds in the article text is among the report's highlights
\* unless the cap of 20 is reached; the text "Critics say the policy is
\* shocking." analysed with full=false reports a framing_choices highlight
\* "critics say" and an emotional_tone highlight "shocking"
C17_ExtractorPairsReported ==
  (Reported /\ AllRemoteDisabled) =>
    LET ex == extract_highlights(article_text)
    IN /\ Len(ReportHighlights) <= HighlightCap
       /\ Len(ReportHighlights) < HighlightCap =>
            \A i \in 1..Len(ex) :
              \E j \in 1..Len(ReportHighlights) :
                /\ ReportHighlights[j].dimension = ex[i].dimension
                /\ ReportHighlights[j].text = ex[i].data.text
       /\ (payload.text = TextCritics /\ ~full) =>
            /\ HasHighlight("framing_choices", <<"c","r","i","t","i","c","s"," ","s","a","y">>)
            /\ HasHighlight("emotional_tone", <<"s","h","o","c","k","i","n","g">>)

C17_Witness ==
  /\ Reported
  /\ AllRemoteDisabled
  /\ payload.text = TextCritics
  /\ ~full
  /\ Len(ReportHighlights) = 2
  /\ HasHighlight("framing_choices", <<"c","r","i","t","i","c","s"," ","s","a","y">>)
  /\ HasHighlight("emotional_tone", <<"s","h","o","c","k","i","n","g">>)

(* ------------------------------------------------------------------ *)
(* Properties of the fallback chain and of the re-run                  *)
(* ------------------------------------------------------------------ *)
\* the thread of task t still waits for the answer of the first candidate it
\* tried, a remote backend
AtSlowPrimary(t) ==
  /\ thr[ThreadOf(t)] \in RemotePositions
  /\ thr[ThreadOf(t)] = FirstCandidate(ThreadOf(t))

\* C18: every attempt of a fallback chain has its own deadline, so no task
\* times out while its thread is still waiting for the first remote candidate:
\* by then that attempt has failed and the next candidate is being tried
C18_SlowPrimaryNeverTimesOutTask ==
  [][\A t \in TaskNames :
       (task[t] = "pending" /\ task'[t] = "timedout") => ~AtSlowPrimary(t)]_vars

\* the tasks of the request were launched and gather is over
Gathered == pc \in AfterGather /\ task["score"] # "none"

\* C19: a gather that timed out is followed by exactly one more llm_score and one
\* more llm_summary, the summary starting only after the score has returned, and
\* by no further extract_claims; the report then has no claims. Scoring and
\* summarization are so invoked twice under a timeout and once without
C19_RerunOnceEachInOrder ==
  /\ Gathered =>
       /\ invoked["llm_score"] = IF SomeTimedOut THEN 2 ELSE 1
       /\ invoked["llm_summary"] = IF SomeTimedOut THEN 2 ELSE 1
       /\ invoked["extract_claims"] = IF full THEN 1 ELSE 0
  /\ thr["score2"] # "idle" => SomeTimedOut
  /\ thr["summary2"] # "idle" => thr["score2"] = "returned"
  /\ (Reported /\ SomeTimedOut) => body.claims = <<>>

\* a full analysis whose gather timed out, reported after the sequential re-run
C19_Witness ==
  /\ Reported
  /\ full
  /\ SomeTimedOut
  /\ thr["score2"] = "returned"
  /\ thr["summary2"] = "returned"
  /\ invoked["llm_score"] = 2
  /\ invoked["llm_summary"] = 2
  /\ invoked["extract_claims"] = 1
  /\ body.claims = <<>>

(* ------------------------------------------------------------------ *)
(* Properties of the shared remote clients                             *)
(* ------------------------------------------------------------------ *)
\* C20: attempts running in parallel threads never write the shared clients at
\* the same time: no two threads are making the client of the same backend at
\* once, and each client is constructed at most once in the process
C20_ClientConstructedAtMostOnce ==
  /\ \A b \in {"openai", "anthropic"} : constructed[b] <= 1
  /\ \A th \in ScoreThreads : \A other \in ScoreThreads \ {th} :
       thr[th] \in {"new_openai", "new_anthropic"} => thr[other] # thr[th]

(* ------------------------------------------------------------------ *)
(* Properties of the narrative clustering                              *)
(* ------------------------------------------------------------------ *)
Clustered == pc = "clustered"

\* the window of the example: articles 1, 2 and 3, read most recent first
ExampleWindow == db.articles = RowsOf({1, 2, 3})

\* the member lists of the clusters of the answer
MemberLists == {body[j].data.article_ids : j \in 1..Len(body)}

\* C16: clustering the three example articles with threshold 0.35, read in the
\* order 3, 2, 1, answers exactly two clusters: article 3 alone, and articles 1
\* and 2 together
C16_ExampleYieldsTwoClusters ==
  (Clustered /\ ExampleWindow /\ payload.threshold = 35) =>
    /\ Len(body) = 2
    /\ MemberLists = {<<3>>, <<2, 1>>}

\* C16 (amended): with threshold 0.35 the three example articles stay apart, one
\* cluster each in the order 3, 2, 1 (articles 1 and 2 share 2 of 6 tokens); they
\* answer the two clusters {3} and {2, 1} with threshold 0.33
C16_ExampleYieldsThreeClusters ==
  (Clustered /\ ExampleWindow) =>
    /\ payload.threshold = 35 =>
         [j \in 1..Len(body) |-> body[j].data.article_ids] = <<(<<3>>), (<<2>>), (<<1>>)>>
    /\ payload.threshold = 33 =>
         [j \in 1..Len(body) |-> body[j].data.article_ids] = <<(<<3>>), (<<2, 1>>)>>

C16_Witness ==
  /\ Clustered
  /\ ExampleWindow
  /\ payload.threshold = 35
  /\ Len(body) = 3
  /\ Len(db.narratives) = 3

\* the token set of the article with id i
TokensOfId(i) == _tokens(TitleOf(ArticlePool[i]))

\* the Jaccard similarity of t and sig is at least the requested threshold
Qualifies(t, sig) ==
  /\ t # {}
  /\ sig # {}
  /\ 100 * Cardinality(t \cap sig) >= payload.threshold * Cardinality(t \cup sig)

\* C21: each article, in input order, joins the earliest-created cluster whose
\* signature at that moment has Jaccard similarity >= T with its token set, its
\* tokens being unioned into that signature and its id appended; with no such
\* cluster it starts a new one; no other cluster changes, none is merged, and
\* every signature is the union of its members' token sets
C21_FirstFitPlacement ==
  /\ [][(pc = "bucketing" /\ ai' = ai + 1) =>
          LET a   == arts[ai]
              t   == TokensOfId(a.id)
              fit == {j \in 1..Len(buckets) : Qualifies(t, buckets[j].tokens)}
          IN IF fit = {}
             THEN buckets' = Append(buckets, [tokens |-> t, ids |-> <<a.id>>])
             ELSE \E j \in fit :
                    /\ \A k \in fit : j <= k
                    /\ Len(buckets') = Len(buckets)
                    /\ buckets'[j].tokens = buckets[j].tokens \cup t
                    /\ buckets'[j].ids = Append(buckets[j].ids, a.id)
                    /\ \A k \in 1..Len(buckets) : k # j => buckets'[k] = buckets[k]]_vars
  /\ [](\A j \in 1..Len(buckets) :
          buckets[j].tokens =
            UNION {TokensOfId(buckets[j].ids[m]) : m \in 1..Len(buckets[j].ids)})

\* articles 7, 4 and 1 with threshold 0.35: article 1 joins the cluster of 7, the
\* earliest that qualifies (2 of 5 tokens shared), although the later cluster of 4
\* is more similar to it (3 of 4)
C21_Witness ==
  /\ Clustered
  /\ db.articles = RowsOf({1, 4, 7})
  /\ payload.threshold = 35
  /\ [j \in 1..Len(buckets) |-> buckets[j].ids] = <<(<<7, 1>>), (<<4>>)>>
  /\ Qualifies(TokensOfId(1), TokensOfId(7))
  /\ Cardinality(TokensOfId(1) \cap TokensOfId(4)) * Cardinality(TokensOfId(1) \cup TokensOfId(7))
       > Cardinality(TokensOfId(1) \cap TokensOfId(7)) * Cardinality(TokensOfId(1) \cup TokensOfId(4))

\* the ids of the articles of the window
WindowIds == {arts[i].id : i \in 1..Len(arts)}

\* the members of the j-th cluster of the answer, as a list
Members(j) == body[j].data.article_ids

\* C23: after a run over a non-empty window the clusters of the answer partition
\* the window: every article id of the window is a member of exactly one cluster
\* and listed there once, every member is an article of the window, no cluster
\* is without members, and there are at most as many clusters as articles
C23_ClustersPartitionWindow ==
  (Clustered /\ arts # <<>>) =>
    /\ \A id \in WindowIds :
         Cardinality({<<j, m>> \in (1..Len(body)) \X (1..Len(arts)) :
                        m <= Len(Members(j)) /\ Members(j)[m] = id}) = 1
    /\ \A j \in 1..Len(body) :
         /\ Members(j) # <<>>
         /\ \A m \in 1..Len(Members(j)) : Members(j)[m] \in WindowIds
    /\ Len(body) >= 1
    /\ Len(body) <= Len(arts)

\* seven stored articles, a window of five: the two oldest are not read, and the
\* five read end up in fewer clusters than articles
C23_Witness ==
  /\ Clustered
  /\ Len(db.articles) = 7
  /\ WindowIds = 3..7
  /\ Len(body) \in 2..4
  /\ \E j \in 1..Len(body) : Len(Members(j)) >= 2

(* ------------------------------------------------------------------ *)
(* Properties of the source ranking (scores in hundredths)             *)
(* ------------------------------------------------------------------ *)
\* the aggregator and social domains the penalty is meant for
AggregatorDomains == {<<"w","i","k","i","p","e","d","i","a",".","o","r","g">>, <<"r","e","d","d","i","t",".","c","o","m">>, <<"x",".","c","o","m">>, <<"t","w","i","t","t","e","r",".","c","o","m">>, <<"f","a","c","e","b","o","o","k",".","c","o","m">>, <<"m","e","d","i","u","m",".","c","o","m">>}

\* host is one of the aggregator domains or a subdomain of one
OnAggregator(host) ==
  \E d \in AggregatorDomains : host = d \/ EndsWith(<<".">> \o d, host)

\* the adjustments as stated: host, url ending, title words, aggregator penalty
StatedAdjustment(url, title) ==
  LET host == HostOf(url)
      u    == LowerStr(url)
      t    == LowerStr(title)
  IN (IF EndsWith(<<".","g","o","v">>, host) \/ EndsWith(<<".","m","i","l">>, host) \/ EndsWith(<<".","e","d","u">>, host) THEN 25 ELSE 0)
     + (IF EndsWith(<<".","p","d","f">>, u) THEN 15 ELSE 0)
     + (IF Contains(<<"p","r","e","s","s">>, t) /\ Contains(<<"r","e","l","e","a","s","e">>, t) THEN 10 ELSE 0)
     + (IF Contains(<<"o","f","f","i","c","i","a","l">>, t) \/ Contains(<<"s","t","a","t","e","m","e","n","t">>, t) THEN 8 ELSE 0)
     - (IF OnAggregator(host) THEN 25 ELSE 0)

\* C22: the score of every returned source is the base relevance score of its
\* search result plus the stated adjustments, clamped to [0,1]; the penalty of
\* 0.25 is taken once, and only from hosts that are a listed aggregator or
\* social domain or a subdomain of one
C22_AdjustedScoreAsStated ==
  pc = "sourced" =>
    \A i \in 1..Len(ranked) :
      \E j \in 1..Len(raw_results) :
        /\ raw_results[j].url = ranked[i].url
        /\ ranked[i].title \in {raw_results[j].title, raw_results[j].url}
        /\ ranked[i].score =
             IMax(0, IMin(100, raw_results[j].score
                               + StatedAdjustment(ranked[i].url, ranked[i].title)))

====
